---- MODULE Spec2Model ----
(***************************************************************************)
(* The dashboard client of the power monitor (class PowerMonitor and the   *)
(* global helpers of the page script): device session, polling loop,       *)
(* rolling chart buffer, threshold evaluation and alarm banner; and the    *)
(* server behind it (the Express routes over the MongoDB collections):     *)
(* reading ingest and query, sessions, and the admin hierarchy of cities,  *)
(* branches, clients and registered devices.                               *)
(*                                                                         *)
(* Conventions                                                             *)
(*  - A JSON payload is a TLA+ record; a missing property is a missing     *)
(*    record field.  The JavaScript value undefined is the number          *)
(*    `undefined`, which no reading and no threshold uses.                 *)
(*  - Measurements and thresholds are integers in their own unit, except   *)
(*    power factors, which are counted in tenths (0.8 is 8).               *)
(*  - A handler runs to completion; a handler is an operator from a world  *)
(*    record (the monitor object, the page, the local storage, the         *)
(*    requests in flight) to the world it leaves.  `threw` is an exception *)
(*    travelling up the call stack.                                        *)
(*  - A route handler is an operator from the server record to the server *)
(*    it leaves; a handler that checks and then writes across an await is  *)
(*    cut there, and the second half runs when the database answers.       *)
(***************************************************************************)
EXTENDS Integers, Sequences, FiniteSets, TLC

VARIABLES
    pm,            \* the PowerMonitor object (window.pm)
    dom,           \* the page elements the script reads and writes
    localStorage,  \* the item 'powerMonitorAlarmSettings'
    inflight,      \* latest-reading requests issued and not yet settled, per device
    now,           \* the wall clock, as read by new Date(): it moves with every request sent
    page,          \* life cycle of the page: "auth", "running", "login"
    pushed,        \* history: samples handed to the buffer since its last reset
    server         \* the server: its collections, sessions, handlers at an await, last reply

vars == <<pm, dom, localStorage, inflight, now, page, pushed, server>>

-----------------------------------------------------------------------------
(* Bounds of the model *)

MaxTime == 3         \* requests sent in a run of Spec and of SpecEval
BufferHorizon == 24  \* requests sent in a run of SpecBuffer
MaxInFlight == 2     \* requests outstanding at a device switch in a run of SpecBuffer
MaxRequests == 3     \* requests the server receives in a run of SpecServer

-----------------------------------------------------------------------------
(* Values *)

undefined == -1000000
null == [isNull |-> TRUE]

Devices == {"EKF_01", "EKF_02"}
NoDevice == "null"

Has(rec, f) == f \in DOMAIN rec

Capacity == 20

\* Parameter names in the order checkAlarms evaluates them, with the reading
\* field each is taken from.
CheckPlan ==
    << <<"voltageUa", "voltages", "Ua">>, <<"voltageUb", "voltages", "Ub">>,
       <<"voltageUc", "voltages", "Uc">>, <<"voltageUab", "voltages", "Uab">>,
       <<"voltageUbc", "voltages", "Ubc">>, <<"voltageUca", "voltages", "Uca">>,
       <<"currentIa", "currents", "Ia">>, <<"currentIb", "currents", "Ib">>,
       <<"currentIc", "currents", "Ic">>, <<"currentIn", "currents", "In">>,
       <<"activePowerA", "activePower", "Pa">>, <<"activePowerB", "activePower", "Pb">>,
       <<"activePowerC", "activePower", "Pc">>, <<"activePowerTotal", "activePower", "Total">>,
       <<"powerFactorA", "powerFactor", "PFa">>, <<"powerFactorB", "powerFactor", "PFb">>,
       <<"powerFactorC", "powerFactor", "PFc">>, <<"powerFactorTotal", "powerFactor", "Total">> >>

Params == {CheckPlan[i][1] : i \in DOMAIN CheckPlan}

\* The updateElement calls of updateDisplay before the thd block, in order:
\* element id, reading group, field ("" for the scalar frequency), digits, unit.
DisplayPlan ==
    << <<"totalPower", "activePower", "Total", 2, "kW">>,
       <<"frequency", "frequency", "", 2, "Hz">>,
       <<"powerFactor", "powerFactor", "Total", 3, "">>,
       <<"energyImport", "energy", "ActiveImport", 2, "kWh">>,
       <<"voltageUa", "voltages", "Ua", 1, "V">>,
       <<"voltageUb", "voltages", "Ub", 1, "V">>,
       <<"voltageUc", "voltages", "Uc", 1, "V">>,
       <<"voltageUab", "voltages", "Uab", 1, "V">>,
       <<"voltageUbc", "voltages", "Ubc", 1, "V">>,
       <<"voltageUca", "voltages", "Uca", 1, "V">>,
       <<"voltageA", "voltages", "Ua", 1, "V">>,
       <<"voltageB", "voltages", "Ub", 1, "V">>,
       <<"voltageC", "voltages", "Uc", 1, "V">>,
       <<"currentA", "currents", "Ia", 2, "A">>,
       <<"currentB", "currents", "Ib", 2, "A">>,
       <<"currentC", "currents", "Ic", 2, "A">>,
       <<"powerA", "activePower", "Pa", 2, "kW">>,
       <<"powerB", "activePower", "Pb", 2, "kW">>,
       <<"powerC", "activePower", "Pc", 2, "kW">>,
       <<"pfA", "powerFactor", "PFa", 3, "">>,
       <<"pfB", "powerFactor", "PFb", 3, "">>,
       <<"pfC", "powerFactor", "PFc", 3, "">>,
       <<"activePowerA", "activePower", "Pa", 3, "">>,
       <<"activePowerB", "activePower", "Pb", 3, "">>,
       <<"activePowerC", "activePower", "Pc", 3, "">>,
       <<"activePowerTotal", "activePower", "Total", 3, "">>,
       <<"reactivePowerA", "reactivePower", "Qa", 3, "">>,
       <<"reactivePowerB", "reactivePower", "Qb", 3, "">>,
       <<"reactivePowerC", "reactivePower", "Qc", 3, "">>,
       <<"reactivePowerTotal", "reactivePower", "Total", 3, "">>,
       <<"apparentPowerA", "apparentPower", "Sa", 3, "">>,
       <<"apparentPowerB", "apparentPower", "Sb", 3, "">>,
       <<"apparentPowerC", "apparentPower", "Sc", 3, "">>,
       <<"apparentPowerTotal", "apparentPower", "Total", 3, "">>,
       <<"powerFactorA", "powerFactor", "PFa", 3, "">>,
       <<"powerFactorB", "powerFactor", "PFb", 3, "">>,
       <<"powerFactorC", "powerFactor", "PFc", 3, "">>,
       <<"powerFactorTotal", "powerFactor", "Total", 3, "">> >>

ThdPlan ==
    << <<"thdUa", "Ua">>, <<"thdUb", "Ub">>, <<"thdUc", "Uc">>,
       <<"thdIa", "Ia">>, <<"thdIb", "Ib">>, <<"thdIc", "Ic">> >>

\* The page keeps the text of these elements in the order of the two plans,
\* with the lastUpdate element after them.
ThdRow == Len(DisplayPlan)
LastUpdateRow == Len(DisplayPlan) + Len(ThdPlan) + 1
DisplayIds ==
    {DisplayPlan[i][1] : i \in DOMAIN DisplayPlan}
        \cup {ThdPlan[i][1] : i \in DOMAIN ThdPlan} \cup {"lastUpdate"}
Row ==
    [id \in DisplayIds |->
        IF id = "lastUpdate" THEN LastUpdateRow
        ELSE IF \E i \in DOMAIN DisplayPlan : DisplayPlan[i][1] = id
        THEN CHOOSE i \in DOMAIN DisplayPlan : DisplayPlan[i][1] = id
        ELSE ThdRow + (CHOOSE i \in DOMAIN ThdPlan : ThdPlan[i][1] = id)]

\* The text of an element: a number printed with d digits and a unit.
Text(v, d, u) == [v |-> v, d |-> d, u |-> u]
HtmlText == Text(0, 0, "html")

-----------------------------------------------------------------------------
(* Readings the data collaborator can answer with *)

NormalPowerData ==
    [ voltages |-> [Ua |-> 230, Ub |-> 231, Uc |-> 229, Uab |-> 400, Ubc |-> 401, Uca |-> 399],
      currents |-> [Ia |-> 50, Ib |-> 40, Ic |-> 30, In |-> 5],
      activePower |-> [Pa |-> 10, Pb |-> 11, Pc |-> 12, Total |-> 33],
      reactivePower |-> [Qa |-> 1, Qb |-> 2, Qc |-> 3, Total |-> 6],
      apparentPower |-> [Sa |-> 11, Sb |-> 12, Sc |-> 13, Total |-> 36],
      powerFactor |-> [PFa |-> 9, PFb |-> 9, PFc |-> 9, Total |-> 9],
      frequency |-> 50,
      energy |-> [ActiveImport |-> 1000, ActiveExport |-> 0, ReactiveImport |-> 10,
                  ReactiveExport |-> 0, Apparent |-> 1010] ]

\* A zeroed payload without the harmonic distortion group.
emptyPowerDataWithoutThd ==
    [g \in DOMAIN NormalPowerData |->
        IF g = "frequency" THEN 0 ELSE [f \in DOMAIN NormalPowerData[g] |-> 0]]

emptyPowerData ==
    [ voltages |-> [Ua |-> 0, Ub |-> 0, Uc |-> 0, Uab |-> 0, Ubc |-> 0, Uca |-> 0],
      currents |-> [Ia |-> 0, Ib |-> 0, Ic |-> 0, In |-> 0],
      activePower |-> [Pa |-> 0, Pb |-> 0, Pc |-> 0, Total |-> 0],
      reactivePower |-> [Qa |-> 0, Qb |-> 0, Qc |-> 0, Total |-> 0],
      apparentPower |-> [Sa |-> 0, Sb |-> 0, Sc |-> 0, Total |-> 0],
      powerFactor |-> [PFa |-> 0, PFb |-> 0, PFc |-> 0, Total |-> 0],
      frequency |-> 0,
      energy |-> [ActiveImport |-> 0, ActiveExport |-> 0, ReactiveImport |-> 0,
                  ReactiveExport |-> 0, Apparent |-> 0],
      thd |-> [Ua |-> 0, Ub |-> 0, Uc |-> 0, Ia |-> 0, Ib |-> 0, Ic |-> 0] ]

Reading(d, pd) == [Device_ID |-> d, powerData |-> pd]

WithIa(d, x) == Reading(d, [NormalPowerData EXCEPT !.currents.Ia = x])
ZeroReading(d) == Reading(d, emptyPowerData)

\* Structurally incomplete payloads.
NoPowerData(d) == [Device_ID |-> d]
NoCurrents(d) ==
    Reading(d, [g \in (DOMAIN NormalPowerData) \ {"currents"} |-> NormalPowerData[g]])
NoIn(d) ==
    Reading(d, [NormalPowerData EXCEPT !.currents = [Ia |-> 50, Ib |-> 40, Ic |-> 30]])

IaValues == {50, 120, 90}
WellFormed(d) == {WithIa(d, x) : x \in IaValues}
Malformed(d) == {NoPowerData(d), NoCurrents(d)}

\* A settled request: the promise rejected or the status was not OK, or a body.
Failure == [ok |-> FALSE]
Body(data) == [ok |-> TRUE, data |-> data]
Responses(d) == {Failure} \cup {Body(r) : r \in WellFormed(d) \cup Malformed(d)}

-----------------------------------------------------------------------------
(* Threshold sets *)

DefaultAlarmSettings ==
    [p \in Params |->
        CASE p \in {"voltageUa", "voltageUb", "voltageUc"} -> [min |-> 200, max |-> 250]
          [] p \in {"voltageUab", "voltageUbc", "voltageUca"} -> [min |-> 350, max |-> 450]
          [] p \in {"currentIa", "currentIb", "currentIc"} -> [max |-> 100]
          [] p = "currentIn" -> [max |-> 50]
          [] p \in {"activePowerA", "activePowerB", "activePowerC"} -> [max |-> 50]
          [] p = "activePowerTotal" -> [max |-> 150]
          [] OTHER -> [min |-> 8] ]

\* {}
EmptyObject == [p \in {} |-> [max |-> 0]]

\* A saved configuration that limits one parameter only.
OnlyIa == [p \in {"currentIa"} |-> [max |-> 100]]

\* The stored item: absent, a JSON text, or a text JSON.parse rejects.
Absent == [kind |-> "absent"]
Corrupt == [kind |-> "corrupt"]
JSONstringify(value) == [kind |-> "json", value |-> value]
JSONparse(item) == item.value

-----------------------------------------------------------------------------
(* The page *)

\* document.getElementById(id) finds an element: the page carries every
\* element the script addresses.
getElementById(id) == TRUE

EmptyChartData ==
    [ timestamps |-> <<>>,
      voltages |-> [Ua |-> <<>>, Ub |-> <<>>, Uc |-> <<>>],
      currents |-> [Ia |-> <<>>, Ib |-> <<>>, Ic |-> <<>>, In |-> <<>>],
      powers |-> [Pa |-> <<>>, Pb |-> <<>>, Pc |-> <<>>, Total |-> <<>>] ]

\* The inputs of the settings form: min_<param> and max_<param>.
MinParams ==
    {"voltageUa", "voltageUb", "voltageUc", "voltageUab", "voltageUbc", "voltageUca",
     "powerFactorA", "powerFactorB", "powerFactorC", "powerFactorTotal"}
MaxParams == Params \ {"powerFactorA", "powerFactorB", "powerFactorC", "powerFactorTotal"}
FormFields == {<<"min", p>> : p \in MinParams} \cup {<<"max", p>> : p \in MaxParams}

\* The text of an input: a number, or text parseFloat makes NaN of.
Blank == [blank |-> TRUE]
Num(n) == [num |-> n]
BlankForm == [f \in FormFields |-> Blank]

\* The page as loaded: banner hidden, no alarm sound, markup texts.
InitialDom ==
    [ alarmBanner |-> "hidden",
      alarmStatus |-> [className |-> "html", count |-> 0],
      alarmMessage |-> [written |-> FALSE, names |-> <<>>, more |-> FALSE],
      led |-> [i \in DOMAIN CheckPlan |-> "led"],
      alarmSound |-> "paused",
      connectionStatus |-> "html",
      display |-> [i \in 1..LastUpdateRow |-> HtmlText],
      selectDeviceMsg |-> "absent",
      dashboard |-> "html",
      charts |-> EmptyChartData,
      form |-> BlankForm,
      interval |-> "none" ]

\* The object the constructor leaves.
InitialMonitor ==
    [ currentData |-> null,
      alarmSettings |-> EmptyObject,
      activeAlarms |-> << >>,
      isAlarmMuted |-> FALSE,
      currentDevice |-> NoDevice,
      deviceSelected |-> FALSE,
      chartData |-> EmptyChartData,
      refreshInterval |-> "unset" ]

-----------------------------------------------------------------------------
(* Alarms *)

playAlarmSound(w) ==
    IF getElementById("alarmSound")
    THEN [w EXCEPT !.dom.alarmSound = "playing"]
    ELSE w

\* A stop that leaves the sound as it is.
soundLeft(w) == w

stopAlarmSound(w) ==
    IF getElementById("alarmSound")
    THEN [w EXCEPT !.dom.alarmSound = "paused"]
    ELSE w

\* A slice that keeps every name.
SliceAll(s) == s

\* Array.from(set).slice(0, 3)
Slice3(s) == SubSeq(s, 1, IF Len(s) < 3 THEN Len(s) ELSE 3)

\* if (!this.isAlarmMuted) this.playAlarmSound()
playUnlessMuted(w) == IF ~w.pm.isAlarmMuted THEN playAlarmSound(w) ELSE w

updateAlarmBanner(w) ==
    IF Len(w.pm.activeAlarms) > 0
    THEN playUnlessMuted(
            [w EXCEPT
                !.dom.alarmBanner =
                    IF getElementById("alarmBanner") THEN "shown" ELSE @,
                !.dom.alarmStatus =
                    IF getElementById("alarmStatus")
                    THEN [className |-> "status-alarm", count |-> Len(w.pm.activeAlarms)]
                    ELSE @,
                !.dom.alarmMessage =
                    IF getElementById("alarmMessage")
                    THEN [written |-> TRUE, names |-> Slice3(w.pm.activeAlarms),
                          more |-> Len(w.pm.activeAlarms) > 3]
                    ELSE @])
    ELSE stopAlarmSound(
            [w EXCEPT
                !.dom.alarmBanner =
                    IF getElementById("alarmBanner") THEN "hidden" ELSE @,
                !.dom.alarmStatus =
                    IF getElementById("alarmStatus")
                    THEN [className |-> "status-normal", count |-> 0] ELSE @])

\* JavaScript's < and > are false when an operand is undefined.
Lt(a, b) == a # undefined /\ b # undefined /\ a < b
Gt(a, b) == a # undefined /\ b # undefined /\ a > b

\* checkParam with inclusive comparisons.
checkParamInclusive(alarmSettings, param, value) ==
    IF ~Has(alarmSettings, param) THEN "skip"
    ELSE LET limits == alarmSettings[param]
             alarm == \/ Has(limits, "min") /\ value # undefined /\ value <= limits.min
                      \/ Has(limits, "max") /\ value # undefined /\ value >= limits.max
         IN  IF alarm THEN "alarm" ELSE "normal"

\* checkParam: "skip" when the parameter has no limits, else whether the value
\* is out of range.  The caller applies its effects on the LED and the set.
checkParam(alarmSettings, param, value) ==
    IF ~Has(alarmSettings, param) THEN "skip"
    ELSE LET limits == alarmSettings[param]
             alarm == \/ Has(limits, "min") /\ Lt(value, limits.min)
                      \/ Has(limits, "max") /\ Gt(value, limits.max)
         IN  IF alarm THEN "alarm" ELSE "normal"

\* pd.group.field: a TypeError when the group is missing, undefined when the
\* field is.
Missing(pd, group) == ~Has(pd, group)
Field(pd, group, field) ==
    IF Has(pd[group], field) THEN pd[group][field] ELSE undefined

IsFalsy(data) == data = null

\* A set that forgets nothing.
keep(s) == s

\* Set.prototype.clear
clear(s) == << >>

\* Set.prototype.add, for each element of t in turn
AddAll(s, t) ==
    LET New(x) == \A i \in DOMAIN s : s[i] # x
    IN  s \o SelectSeq(t, New)

\* The position of a parameter in CheckPlan.
CheckIndex == [p \in Params |-> CHOOSE i \in DOMAIN CheckPlan : CheckPlan[i][1] = p]

\* The first checkParam call whose argument throws, Len(CheckPlan) + 1 when
\* none does.
FirstCheckThrow(pd) ==
    IF \E i \in DOMAIN CheckPlan : Missing(pd, CheckPlan[i][2])
    THEN CHOOSE i \in DOMAIN CheckPlan :
            /\ Missing(pd, CheckPlan[i][2])
            /\ \A j \in 1..(i - 1) : ~Missing(pd, CheckPlan[j][2])
    ELSE Len(CheckPlan) + 1

\* What the i-th call does when the calls before position k run.
CheckResult(alarmSettings, pd, k, i) ==
    IF i < k /\ getElementById(<<"led", CheckPlan[i][1]>>)
    THEN checkParam(alarmSettings, CheckPlan[i][1], Field(pd, CheckPlan[i][2], CheckPlan[i][3]))
    ELSE "skip"

\* The parameters in alarm among the first n calls, in order.
RECURSIVE AlarmsUpTo(_, _)
AlarmsUpTo(results, n) ==
    IF n = 0 THEN << >>
    ELSE IF results[n] = "alarm"
         THEN Append(AlarmsUpTo(results, n - 1), CheckPlan[n][1])
         ELSE AlarmsUpTo(results, n - 1)

\* led.className = alarm ? 'led alarm' : 'led normal'
LedClass(result, className) ==
    CASE result = "alarm" -> "led alarm"
      [] result = "normal" -> "led normal"
      [] OTHER -> className

\* The effects of the calls: each reached parameter with limits and an LED
\* sets the LED and, in alarm, joins the set.
applyResults(w, results, k) ==
    [w EXCEPT
        !.pm.activeAlarms =
            AddAll(clear(w.pm.activeAlarms), AlarmsUpTo(results, Len(CheckPlan))),
        !.dom.led = [i \in DOMAIN CheckPlan |-> LedClass(results[i], @[i])],
        !.threw = k <= Len(CheckPlan)]

\* An evaluation against the built-in limits, whatever the current ones are.
checkParamsAgainstDefaults(w, pd, k) ==
    applyResults(w, [i \in DOMAIN CheckPlan |-> CheckResult(DefaultAlarmSettings, pd, k, i)], k)

\* The checkParam calls run in order until an argument throws.
checkParams(w, pd, k) ==
    applyResults(w, [i \in DOMAIN CheckPlan |-> CheckResult(w.pm.alarmSettings, pd, k, i)], k)

\* A banner update that takes the mute back once no alarm is left.
bannerAfterChecksRearming(w) ==
    IF w.threw THEN w
    ELSE updateAlarmBanner([w EXCEPT !.pm.isAlarmMuted = @ /\ Len(w.pm.activeAlarms) > 0])

\* The statement after the calls, unless one of them threw.
bannerAfterChecks(w) == IF w.threw THEN w ELSE updateAlarmBanner(w)

checkAlarms(w, data) ==
    IF IsFalsy(data) \/ ~Has(data, "powerData") THEN w
    ELSE bannerAfterChecks(checkParams(w, data.powerData, FirstCheckThrow(data.powerData)))

-----------------------------------------------------------------------------
(* Display values *)

\* updateElement writes the text when it differs (the highlight it adds for
\* half a second is not modelled).
updateElement(w, id, value) ==
    IF getElementById(id) /\ w.dom.display[Row[id]] # value
    THEN [w EXCEPT !.dom.display[Row[id]] = value]
    ELSE w

\* value.toFixed(digits) is a TypeError on a missing group or a missing field.
ToFixedThrows(pd, e) ==
    \/ Missing(pd, e[2])
    \/ e[3] # "" /\ ~Has(pd[e[2]], e[3])

Shown(pd, e) ==
    Text(IF e[3] = "" THEN pd[e[2]] ELSE pd[e[2]][e[3]], e[4], e[5])

\* The updateElement calls run in order until one throws.
FirstThrow(pd) ==
    IF \E i \in DOMAIN DisplayPlan : ToFixedThrows(pd, DisplayPlan[i])
    THEN CHOOSE i \in DOMAIN DisplayPlan :
            /\ ToFixedThrows(pd, DisplayPlan[i])
            /\ \A j \in 1..(i - 1) : ~ToFixedThrows(pd, DisplayPlan[j])
    ELSE Len(DisplayPlan) + 1

displayUpTo(w, pd, k) ==
    [w EXCEPT
        !.dom.display =
            [i \in 1..LastUpdateRow |->
                IF i < k /\ i <= Len(DisplayPlan) /\ getElementById(DisplayPlan[i][1])
                THEN Shown(pd, DisplayPlan[i])
                ELSE @[i]],
        !.threw = k <= Len(DisplayPlan)]

displayFrom(w, pd) == displayUpTo(w, pd, FirstThrow(pd))

\* pd.thd.X?.toFixed(2) || '0.00'
ThdShown(thd, e) ==
    Text(IF Has(thd, e[2]) /\ thd[e[2]] # undefined THEN thd[e[2]] ELSE 0, 2, "%")

thdFrom(w, thd) ==
    [w EXCEPT
        !.dom.display =
            [i \in 1..LastUpdateRow |->
                IF ThdRow < i /\ i < LastUpdateRow /\ getElementById(ThdPlan[i - ThdRow][1])
                THEN ThdShown(thd, ThdPlan[i - ThdRow])
                ELSE @[i]]]

\* if (pd.thd) { ... }
thdStep(w, pd) ==
    IF w.threw \/ ~Has(pd, "thd") THEN w ELSE thdFrom(w, pd.thd)

\* The last statement: the time and the device of the update.
lastUpdateStep(w) ==
    IF w.threw THEN w
    ELSE updateElement(w, "lastUpdate", Text(w.now, 0, w.pm.currentDevice))

updateDisplay(w, data) ==
    IF IsFalsy(data) \/ ~Has(data, "powerData") THEN w
    ELSE lastUpdateStep(thdStep(displayFrom(w, data.powerData), data.powerData))

-----------------------------------------------------------------------------
(* The rolling buffer *)

\* Array.prototype.pop: the newest element goes instead of the oldest.
Pop(s) == IF Len(s) = 0 THEN s ELSE SubSeq(s, 1, Len(s) - 1)

\* Array.prototype.shift on every series
Shift(s) == IF Len(s) = 0 THEN s ELSE Tail(s)

\* A shift of the time labels alone.
shiftTimestamps(cd) == [cd EXCEPT !.timestamps = Shift(@)]

shiftAll(cd) ==
    [ timestamps |-> Shift(cd.timestamps),
      voltages |-> [k \in DOMAIN cd.voltages |-> Shift(cd.voltages[k])],
      currents |-> [k \in DOMAIN cd.currents |-> Shift(cd.currents[k])],
      powers |-> [k \in DOMAIN cd.powers |-> Shift(cd.powers[k])] ]

\* if (this.chartData.timestamps.length >= 20) { every series shifts }
shiftStep(w) ==
    IF Len(w.pm.chartData.timestamps) >= Capacity
    THEN [w EXCEPT !.pm.chartData = shiftAll(@)]
    ELSE w

pushTimeLabel(w) == [w EXCEPT !.pm.chartData.timestamps = Append(@, w.now)]

\* The pushes of a group throw a TypeError when the payload lacks the group.
pushVoltages(w, pd) ==
    IF Missing(pd, "voltages") THEN [w EXCEPT !.threw = TRUE]
    ELSE [w EXCEPT
            !.pm.chartData.voltages.Ua = Append(@, Field(pd, "voltages", "Ua")),
            !.pm.chartData.voltages.Ub = Append(@, Field(pd, "voltages", "Ub")),
            !.pm.chartData.voltages.Uc = Append(@, Field(pd, "voltages", "Uc"))]

pushCurrents(w, pd) ==
    IF w.threw THEN w
    ELSE IF Missing(pd, "currents") THEN [w EXCEPT !.threw = TRUE]
    ELSE [w EXCEPT
            !.pm.chartData.currents.Ia = Append(@, Field(pd, "currents", "Ia")),
            !.pm.chartData.currents.Ib = Append(@, Field(pd, "currents", "Ib")),
            !.pm.chartData.currents.Ic = Append(@, Field(pd, "currents", "Ic")),
            !.pm.chartData.currents.In = Append(@, Field(pd, "currents", "In"))]

pushPowers(w, pd) ==
    IF w.threw THEN w
    ELSE IF Missing(pd, "activePower") THEN [w EXCEPT !.threw = TRUE]
    ELSE [w EXCEPT
            !.pm.chartData.powers.Pa = Append(@, Field(pd, "activePower", "Pa")),
            !.pm.chartData.powers.Pb = Append(@, Field(pd, "activePower", "Pb")),
            !.pm.chartData.powers.Pc = Append(@, Field(pd, "activePower", "Pc")),
            !.pm.chartData.powers.Total = Append(@, Field(pd, "activePower", "Total"))]

updateChartData(w, data) ==
    IF IsFalsy(data) \/ ~Has(data, "powerData") THEN w
    ELSE pushPowers(
            pushCurrents(
                pushVoltages(pushTimeLabel(shiftStep(w)), data.powerData),
                data.powerData),
            data.powerData)

\* dom.charts is what the three charts drew at their last update('none').
updateCharts(w) ==
    IF Len(w.pm.chartData.timestamps) = 0 THEN w
    ELSE [w EXCEPT !.dom.charts = w.pm.chartData]

\* A reset that empties the violation set too, without redrawing the banner.
resetChartDataAndAlarms(w) ==
    [w EXCEPT !.pm.chartData = EmptyChartData, !.dom.charts = EmptyChartData,
              !.pm.activeAlarms = << >>]

\* A reset that also takes the mute back.
resetChartDataUnmuting(w) ==
    [w EXCEPT !.pm.chartData = EmptyChartData, !.dom.charts = EmptyChartData,
              !.pm.isAlarmMuted = FALSE]

resetChartData(w) ==
    [w EXCEPT !.pm.chartData = EmptyChartData, !.dom.charts = EmptyChartData]

-----------------------------------------------------------------------------
(* Fetching the latest reading *)

updateConnectionStatus(w, connected) ==
    IF getElementById("connectionStatus")
    THEN [w EXCEPT !.dom.connectionStatus = IF connected THEN "Online" ELSE "Offline"]
    ELSE w

\* loadLatestData up to its first await: the request leaves for the device
\* selected at this moment.
loadLatestData(w) ==
    IF w.pm.currentDevice = NoDevice \/ ~w.pm.deviceSelected THEN w
    ELSE [w EXCEPT !.inflight[w.pm.currentDevice] = @ + 1]

\* The statements of the try block after the awaits; an exception skips the
\* rest of the block.
chartStep(w, data) == IF w.threw THEN w ELSE updateChartData(w, data)
alarmStep(w, data) == IF w.threw THEN w ELSE checkAlarms(w, data)
onlineStep(w) == IF w.threw THEN w ELSE updateConnectionStatus(w, TRUE)

onData(w, data) ==
    onlineStep(
        alarmStep(
            chartStep(updateDisplay([w EXCEPT !.pm.currentData = data], data), data),
            data))

\* if (!response.ok) throw ...; otherwise the body is handled.
tryBlock(w, response) ==
    IF response.ok THEN onData(w, response.data) ELSE [w EXCEPT !.threw = TRUE]

\* A catch block that also forgets the last reading.
catchBlockForgetting(w) ==
    IF w.threw
    THEN updateConnectionStatus([w EXCEPT !.threw = FALSE, !.pm.currentData = null], FALSE)
    ELSE w

\* A catch block that drops the selection.
catchBlockUnselecting(w) ==
    IF w.threw
    THEN updateConnectionStatus([w EXCEPT !.threw = FALSE, !.pm.deviceSelected = FALSE], FALSE)
    ELSE w

\* catch (error) { this.updateConnectionStatus(false) }
catchBlock(w) ==
    IF w.threw THEN updateConnectionStatus([w EXCEPT !.threw = FALSE], FALSE) ELSE w

\* loadLatestData from the moment the request for `device` settles.
loadLatestDataSettled(w, device, response) ==
    catchBlock(tryBlock([w EXCEPT !.inflight[device] = @ - 1], response))

-----------------------------------------------------------------------------
(* Settings *)

saveAlarmSettings(w) ==
    [w EXCEPT !.localStorage = JSONstringify(w.pm.alarmSettings)]

setDefaultAlarmSettings(w) ==
    saveAlarmSettings([w EXCEPT !.pm.alarmSettings = DefaultAlarmSettings])

populateSettingsForm(w) ==
    LET s == w.pm.alarmSettings
        Written(f) == /\ Has(s, f[2]) /\ Has(s[f[2]], f[1])
    IN  [w EXCEPT !.dom.form =
            [f \in FormFields |-> IF Written(f) THEN Num(s[f[2]][f[1]]) ELSE @[f]]]

\* JSON.parse throws a SyntaxError on a corrupt item.
loadAlarmSettings(w) ==
    LET saved == w.localStorage
    IN  IF saved = Absent THEN setDefaultAlarmSettings(w)
        ELSE IF saved = Corrupt THEN [w EXCEPT !.threw = TRUE]
        ELSE populateSettingsForm([w EXCEPT !.pm.alarmSettings = JSONparse(saved)])

\* parseFloat(input.value) || fallback
OrDefault(text, fallback) ==
    IF Has(text, "num") /\ text.num # 0 THEN text.num ELSE fallback

showPage(w, pageId) ==
    IF pageId = "dashboard" /\ w.pm.deviceSelected THEN loadLatestData(w) ELSE w

saveSettings(w) ==
    LET form == w.dom.form
        s == [p \in Params |->
                LET d == DefaultAlarmSettings[p]
                IN  [k \in DOMAIN d |-> OrDefault(form[<<k, p>>], d[k])]]
    IN  showPage(saveAlarmSettings([w EXCEPT !.pm.alarmSettings = s]), "dashboard")

resetSettings(w) == populateSettingsForm(setDefaultAlarmSettings(w))

-----------------------------------------------------------------------------
(* Device session and page life cycle *)

showSelectDeviceMessage(w) ==
    IF ~w.pm.deviceSelected
    THEN [w EXCEPT !.dom.dashboard = "none", !.dom.selectDeviceMsg = "flex"]
    ELSE w

hideSelectDeviceMessage(w) ==
    [w EXCEPT !.dom.selectDeviceMsg = IF @ = "absent" THEN @ ELSE "none",
              !.dom.dashboard = "block"]

selectDevice(w, deviceId) ==
    LET w1 == [w EXCEPT !.pm.currentDevice = deviceId, !.pm.deviceSelected = TRUE]
        w2 == loadLatestData(resetChartData(hideSelectDeviceMessage(w1)))
    IN  showPage(w2, "dashboard")

\* The change listener of the deviceSelect drop-down.
deviceSelectChange(w, value) ==
    IF value = "" THEN w
    ELSE LET w1 == [w EXCEPT !.pm.currentDevice = value, !.pm.deviceSelected = TRUE]
         IN  loadLatestData(resetChartData(hideSelectDeviceMessage(w1)))

\* A mute that sets the flag only.
muteAlarmFlagOnly(w) == [w EXCEPT !.pm.isAlarmMuted = TRUE]

\* The click listener of the muteAlarm button.
muteAlarm(w) ==
    updateAlarmBanner(stopAlarmSound([w EXCEPT !.pm.isAlarmMuted = TRUE]))

\* A callback that polls a default device whether or not one is selected.
intervalCallbackUnconditional(w) ==
    updateCharts([w EXCEPT !.inflight["EKF_01"] = @ + 1])

\* A callback that stops polling while the page is offline.
intervalCallbackUnlessOffline(w) ==
    IF w.pm.deviceSelected /\ w.dom.connectionStatus # "Offline"
    THEN updateCharts(loadLatestData(w))
    ELSE w

\* The callback init hands to setInterval.
intervalCallback(w) ==
    IF w.pm.deviceSelected THEN updateCharts(loadLatestData(w)) ELSE w

\* The placeholder and the timer, unless loadAlarmSettings threw.
startTimer(w) ==
    IF w.threw THEN w
    ELSE [showSelectDeviceMessage(w) EXCEPT
            !.pm.refreshInterval = "set", !.dom.interval = "running"]

\* init: listeners, thresholds, charts, the device list (not modelled: it only
\* fills the side bar), the placeholder, the timer.
init(w) == startTimer(loadAlarmSettings(w))

\* checkAuth from the moment the status request settles.
\* catch (error) { window.location.href = '/login.html' }
\* Without an exception the page runs, unless a logout is already on its way.
authCatch(w) ==
    IF w.threw THEN [w EXCEPT !.threw = FALSE, !.page = "login"]
    ELSE [w EXCEPT !.page = IF @ = "auth" THEN "running" ELSE @]

checkAuthSettled(w, authenticated) ==
    IF ~authenticated THEN [w EXCEPT !.page = "login"]
    ELSE authCatch(init(w))

logout(w) ==
    [w EXCEPT !.dom.interval = IF w.pm.refreshInterval = "set" THEN "cleared" ELSE @,
              !.page = "loggingOut"]

-----------------------------------------------------------------------------
(* The server (v3.0): users and sessions, the City / Branch / Client /     *)
(* Device hierarchy and the stored readings.  A route handler is an        *)
(* operator from the server record to the server it leaves; a handler that *)
(* awaits the database between a check and a write is cut at that await.   *)

\* ObjectIds: each collection draws its _id values from its own pool, and a
\* request may carry any id of the pool, whether a document has it or not.
UserIds == {"u1", "u2", "u3"}
CityIds == {"c1", "c2"}
BranchIds == {"b1", "b2"}
ClientIds == {"k1", "k2"}
DeviceDocIds == {"d1", "d2", "d3"}
NoId == "null"

\* new Model(...) gives the document an _id no document has had before.
CanCreate(s, pool) == pool \ s.used # {}
NewId(s, pool) == CHOOSE id \in pool : id \notin s.used

\* The browsers that keep a session cookie; a request without one.
Browsers == {"A", "B"}
NoCookie == "none"
NoSession == [userId |-> NoId, username |-> "", role |-> ""]

SetupAdminName == "Tigran@gamil.com"
SetupAdminPassword == "Tik123"
Usernames == {SetupAdminName, "client1"}
Passwords == {SetupAdminPassword, "abc"}
Length == [p \in Passwords |-> IF p = "abc" THEN 3 ELSE 6]
CityNames == {"Yerevan", "Gyumri"}

\* bcrypt.hash and bcrypt.compare
bcryptHash(password) == [bcrypt |-> password]
bcryptCompare(password, hash) == hash = bcryptHash(password)

DEVICE_API_KEY == "change-this-secret-key"

\* res.status(status).json(body)
Send(s, status, body) == [s EXCEPT !.reply = [status |-> status, body |-> body]]
Error(text) == [error |-> text]

Find(collection, id) == {x \in collection : x.id = id}
FindOne(collection, id) == CHOOSE x \in collection : x.id = id

\* findByIdAndUpdate: the document `id` replaced by its updated version.
Update(collection, id, doc) == (collection \ Find(collection, id)) \cup {doc}

requireAuth(s, cookie) ==
    cookie \in Browsers /\ s.sessions[cookie].userId # NoId

requireAdmin(s, cookie) ==
    requireAuth(s, cookie) /\ s.sessions[cookie].role = "admin"

\* The role of the session a request comes from, "none" without a session.
RoleOf(s, cookie) ==
    IF requireAuth(s, cookie) THEN s.sessions[cookie].role ELSE "none"

\* A server with no document and no session.
EmptyServer ==
    [ users |-> {}, cities |-> {}, branches |-> {}, clients |-> {}, devices |-> {},
      readings |-> << >>, used |-> {},
      sessions |-> [b \in Browsers |-> NoSession],
      calls |-> {},
      reply |-> [status |-> 0, body |-> Error("")],
      served |-> 0 ]

(* Device data *)

\* powerDataSchema: the groups of a reading and the fields of each; frequency
\* is a number.
powerDataSchema ==
    [ voltages |-> {"Ua", "Ub", "Uc", "Uab", "Ubc", "Uca"},
      currents |-> {"Ia", "Ib", "Ic", "In"},
      activePower |-> {"Pa", "Pb", "Pc", "Total"},
      reactivePower |-> {"Qa", "Qb", "Qc", "Total"},
      apparentPower |-> {"Sa", "Sb", "Sc", "Total"},
      powerFactor |-> {"PFa", "PFb", "PFc", "Total"},
      frequency |-> {},
      energy |-> {"ActiveImport", "ActiveExport", "ReactiveImport", "ReactiveExport",
                  "Apparent"},
      thd |-> {"Ua", "Ub", "Uc", "Ia", "Ib", "Ic"} ]

\* new PowerData(req.body): timestamp defaults to Date.now, which is taken
\* to move with every request served.
StoredReading(body, time) ==
    [ Device_ID |-> body.Device_ID, powerData |-> body.powerData,
      timestamp |-> IF Has(body, "timestamp") THEN body.timestamp ELSE time ]

postData(s, apiKey, body) ==
    IF apiKey = "" \/ apiKey # DEVICE_API_KEY
    THEN Send(s, 401, Error("Invalid or missing API key"))
    ELSE Send([s EXCEPT !.readings = Append(@, StoredReading(body, s.served + 1))],
              201, [message |-> "Data stored successfully"])

\* req.query.device || "EKF_01"
QueryDevice(device) == IF device = "" THEN "EKF_01" ELSE device

\* parseInt(req.query.limit) || 100
QueryLimit(limit) == IF limit = "1" THEN 1 ELSE 100

\* The positions of the stored readings of a device.
Of(readings, deviceId) == {i \in DOMAIN readings : readings[i].Device_ID = deviceId}

\* find({Device_ID}).sort({timestamp: -1}): the readings of the device,
\* newest first; readings of equal timestamp come in an order the database
\* chooses.
NewestFirst(readings, deviceId) ==
    LET found == Of(readings, deviceId)
        n == Cardinality(found)
    IN  { p \in [1..n -> found] :
            \A i, j \in 1..n :
                i < j => /\ p[i] # p[j]
                         /\ readings[p[i]].timestamp >= readings[p[j]].timestamp }

\* GET /api/data/latest; `order` is the order the database sorted in.
getLatest(s, cookie, device, order) ==
    IF ~requireAuth(s, cookie) THEN Send(s, 401, Error("Authentication required"))
    ELSE IF Of(s.readings, QueryDevice(device)) = {}
         THEN Send(s, 200, [Device_ID |-> QueryDevice(device), powerData |-> emptyPowerData])
         ELSE Send(s, 200, s.readings[order[1]])

\* GET /api/data/history
getHistory(s, cookie, device, limit, order) ==
    IF ~requireAuth(s, cookie) THEN Send(s, 401, Error("Authentication required"))
    ELSE Send(s, 200,
              [history |-> [i \in 1..(IF QueryLimit(limit) < Len(order)
                                      THEN QueryLimit(limit) ELSE Len(order))
                                |-> s.readings[order[i]]]])

(* Sessions *)

login(s, cookie, username, password) ==
    IF username = "" \/ password = ""
    THEN Send(s, 400, Error("Username and password required"))
    ELSE IF ~\E u \in s.users : u.username = username
    THEN Send(s, 401, Error("Invalid credentials"))
    ELSE LET user == CHOOSE u \in s.users : u.username = username
         IN  IF ~bcryptCompare(password, user.password)
             THEN Send(s, 401, Error("Invalid credentials"))
             ELSE Send([s EXCEPT !.sessions[cookie] =
                            [userId |-> user.id, username |-> user.username,
                             role |-> user.role]],
                       200, [message |-> "Login successful"])

\* req.session.destroy
logoutRoute(s, cookie) ==
    Send([s EXCEPT !.sessions[cookie] = NoSession], 200, [message |-> "Logout successful"])

\* GET /api/my/devices: the devices of the clients linked to the session's user.
MyDevices(s, userId) ==
    {d \in s.devices : \E c \in s.clients : c.userId = userId /\ d.clientId = c.id}

myDevices(s, cookie) ==
    IF ~requireAuth(s, cookie) THEN Send(s, 401, Error("Authentication required"))
    ELSE Send(s, 200, [devices |-> MyDevices(s, s.sessions[cookie].userId)])

(* Admin: cities *)

Forbidden(s) == Send(s, 403, Error("Admin access required"))

\* save() and findByIdAndUpdate fail on a unique index.
DuplicateKey(s, index) == Send(s, 500, Error(<<"E11000 duplicate key error", index>>))

postCity(s, cookie, name) ==
    IF ~requireAdmin(s, cookie) THEN Forbidden(s)
    ELSE IF name = "" THEN Send(s, 400, Error("City name required"))
    ELSE IF \E c \in s.cities : c.name = name THEN DuplicateKey(s, "name_1")
    ELSE LET city == [id |-> NewId(s, CityIds), name |-> name]
         IN  Send([s EXCEPT !.cities = @ \cup {city}, !.used = @ \cup {city.id}], 201, city)

putCity(s, cookie, id, name) ==
    IF ~requireAdmin(s, cookie) THEN Forbidden(s)
    ELSE IF Find(s.cities, id) = {} THEN Send(s, 404, Error("City not found"))
    ELSE IF \E c \in s.cities : c.name = name /\ c.id # id THEN DuplicateKey(s, "name_1")
    ELSE Send([s EXCEPT !.cities = Update(@, id, [id |-> id, name |-> name])],
              200, [id |-> id, name |-> name])

\* A handler waiting for the database: the route, the browser it serves, its
\* arguments, the statement it resumes at.
Call(route, cookie, a, b, at) ==
    [route |-> route, cookie |-> cookie, a |-> a, b |-> b, at |-> at]

\* DELETE /api/admin/cities/:id up to the answer of countDocuments.
deleteCity(s, cookie, id) ==
    IF ~requireAdmin(s, cookie) THEN Forbidden(s)
    ELSE IF \E b \in s.branches : b.cityId = id
    THEN Send(s, 400, Error("Cannot delete: city has branch(es). Remove them first."))
    ELSE [s EXCEPT !.calls = @ \cup {Call("deleteCity", cookie, id, NoId, "findByIdAndDelete")}]

\* ... and from there on.
deleteCityResumed(s, id) ==
    IF Find(s.cities, id) = {} THEN Send(s, 404, Error("City not found"))
    ELSE Send([s EXCEPT !.cities = @ \ Find(@, id)], 200, [message |-> "City deleted"])

(* Admin: branches *)

postBranch(s, cookie, name, cityId) ==
    IF ~requireAdmin(s, cookie) THEN Forbidden(s)
    ELSE IF name = "" \/ cityId = ""
    THEN Send(s, 400, Error("Branch name and city required"))
    ELSE LET branch == [id |-> NewId(s, BranchIds), name |-> name, cityId |-> cityId]
         IN  Send([s EXCEPT !.branches = @ \cup {branch}, !.used = @ \cup {branch.id}],
                  201, branch)

\* if (req.body.x) update.x = req.body.x
Given(value, old) == IF value = "" THEN old ELSE value

putBranch(s, cookie, id, name, cityId) ==
    IF ~requireAdmin(s, cookie) THEN Forbidden(s)
    ELSE IF Find(s.branches, id) = {} THEN Send(s, 404, Error("Branch not found"))
    ELSE LET old == FindOne(s.branches, id)
             branch == [old EXCEPT !.name = Given(name, @), !.cityId = Given(cityId, @)]
         IN  Send([s EXCEPT !.branches = Update(@, id, branch)], 200, branch)

deleteBranch(s, cookie, id) ==
    IF ~requireAdmin(s, cookie) THEN Forbidden(s)
    ELSE IF \E c \in s.clients : c.branchId = id
    THEN Send(s, 400, Error("Cannot delete: branch has client(s). Remove them first."))
    ELSE [s EXCEPT !.calls = @ \cup {Call("deleteBranch", cookie, id, NoId, "findByIdAndDelete")}]

deleteBranchResumed(s, id) ==
    IF Find(s.branches, id) = {} THEN Send(s, 404, Error("Branch not found"))
    ELSE Send([s EXCEPT !.branches = @ \ Find(@, id)], 200, [message |-> "Branch deleted"])

(* Admin: clients *)

\* new User({username, password: hashed, role}); `by` records the role of the
\* session the creating request came from.
NewUser(s, username, password, role, by) ==
    [ id |-> NewId(s, UserIds), username |-> username, password |-> bcryptHash(password),
      role |-> role, by |-> by ]

saveClient(s, cookie, name, branchId, userId) ==
    LET client == [id |-> NewId(s, ClientIds), name |-> name, branchId |-> branchId,
                   userId |-> userId]
    IN  Send([s EXCEPT !.clients = @ \cup {client}, !.used = @ \cup {client.id}],
             201, client)

postClient(s, cookie, name, branchId, username, password) ==
    IF ~requireAdmin(s, cookie) THEN Forbidden(s)
    ELSE IF name = "" \/ branchId = ""
    THEN Send(s, 400, Error("Client name and branch required"))
    ELSE IF username = "" \/ password = ""
    THEN saveClient(s, cookie, name, branchId, NoId)
    ELSE IF Length[password] < 6
    THEN Send(s, 400, Error("Password must be at least 6 characters"))
    ELSE IF \E u \in s.users : u.username = username
    THEN Send(s, 400, Error("Username already exists"))
    ELSE saveClient([s EXCEPT
                        !.users = @ \cup {NewUser(s, username, password, "user",
                                                  RoleOf(s, cookie))},
                        !.used = @ \cup {NewId(s, UserIds)}],
                    cookie, name, branchId, NewId(s, UserIds))

putClient(s, cookie, id, name, branchId) ==
    IF ~requireAdmin(s, cookie) THEN Forbidden(s)
    ELSE IF Find(s.clients, id) = {} THEN Send(s, 404, Error("Client not found"))
    ELSE LET old == FindOne(s.clients, id)
             client == [old EXCEPT !.name = Given(name, @), !.branchId = Given(branchId, @)]
         IN  Send([s EXCEPT !.clients = Update(@, id, client)], 200, client)

deleteClient(s, cookie, id) ==
    IF ~requireAdmin(s, cookie) THEN Forbidden(s)
    ELSE IF \E d \in s.devices : d.clientId = id
    THEN Send(s, 400, Error("Cannot delete: client has device(s). Remove them first."))
    ELSE [s EXCEPT !.calls = @ \cup {Call("deleteClient", cookie, id, NoId, "findByIdAndDelete")}]

deleteClientResumed(s, id) ==
    IF Find(s.clients, id) = {} THEN Send(s, 404, Error("Client not found"))
    ELSE Send([s EXCEPT !.clients = @ \ Find(@, id)], 200, [message |-> "Client deleted"])

(* Admin: devices *)

\* POST /api/admin/devices up to the answer of PowerData.findOne: the device
\* must have sent data.
postDevice(s, cookie, deviceId, clientId) ==
    IF ~requireAdmin(s, cookie) THEN Forbidden(s)
    ELSE IF deviceId = "" \/ clientId = ""
    THEN Send(s, 400, Error("Device ID and client required"))
    ELSE IF Of(s.readings, deviceId) = {}
    THEN Send(s, 400, Error("Device not found in system."))
    ELSE [s EXCEPT !.calls = @ \cup {Call("postDevice", cookie, deviceId, clientId, "Device.findOne")}]

\* ... from there up to the answer of Device.findOne ...
postDeviceFound(s, cookie, deviceId, clientId) ==
    IF \E d \in s.devices : d.deviceId = deviceId
    THEN Send(s, 400, Error("Device already registered"))
    ELSE [s EXCEPT !.calls = @ \cup {Call("postDevice", cookie, deviceId, clientId, "save")}]

\* A save into a collection without the unique index on deviceId.
saveDeviceUnindexed(s, deviceId, clientId) ==
    LET device == [id |-> NewId(s, DeviceDocIds), deviceId |-> deviceId,
                   clientId |-> clientId, name |-> deviceId]
    IN  Send([s EXCEPT !.devices = @ \cup {device}, !.used = @ \cup {device.id}],
             201, device)

\* ... and the save, which the unique index on deviceId can refuse.
saveDevice(s, deviceId, clientId) ==
    IF \E d \in s.devices : d.deviceId = deviceId THEN DuplicateKey(s, "deviceId_1")
    ELSE LET device == [id |-> NewId(s, DeviceDocIds), deviceId |-> deviceId,
                        clientId |-> clientId, name |-> deviceId]
         IN  Send([s EXCEPT !.devices = @ \cup {device}, !.used = @ \cup {device.id}],
                  201, device)

putDevice(s, cookie, id, name, clientId) ==
    IF ~requireAdmin(s, cookie) THEN Forbidden(s)
    ELSE IF Find(s.devices, id) = {} THEN Send(s, 404, Error("Device not found"))
    ELSE LET old == FindOne(s.devices, id)
             device == [old EXCEPT !.name = Given(name, @), !.clientId = Given(clientId, @)]
         IN  Send([s EXCEPT !.devices = Update(@, id, device)], 200, device)

deleteDevice(s, cookie, id) ==
    IF ~requireAdmin(s, cookie) THEN Forbidden(s)
    ELSE IF Find(s.devices, id) = {} THEN Send(s, 404, Error("Device not found"))
    ELSE Send([s EXCEPT !.devices = @ \ Find(@, id)],
              200, [message |-> "Device unregistered (data preserved)"])

(* Admin accounts *)

\* GET /setup-admin: no middleware in front of it.
setupAdmin(s, cookie) ==
    IF \E u \in s.users : u.username = SetupAdminName
    THEN Send(s, 200, [message |-> "Admin user already exists."])
    ELSE Send([s EXCEPT
                !.users = @ \cup {NewUser(s, SetupAdminName, SetupAdminPassword, "admin",
                                          RoleOf(s, cookie))},
                !.used = @ \cup {NewId(s, UserIds)}],
              200, [message |-> "Admin created!"])

\* POST /api/auth/register-admin, the route of server v2.0.
registerAdmin(s, cookie, username, password) ==
    IF ~requireAdmin(s, cookie) THEN Forbidden(s)
    ELSE IF username = "" \/ password = ""
    THEN Send(s, 400, Error("Username and password required"))
    ELSE IF Length[password] < 6
    THEN Send(s, 400, Error("Password must be at least 6 characters"))
    ELSE IF \E u \in s.users : u.username = username
    THEN Send(s, 400, Error("Username already exists"))
    ELSE Send([s EXCEPT
                !.users = @ \cup {NewUser(s, username, password, "admin", RoleOf(s, cookie))},
                !.used = @ \cup {NewId(s, UserIds)}],
              201, [message |-> "Admin user registered successfully"])

\* The handler `call` runs on from its await.
resumeAt(s, call) ==
    CASE call.route = "deleteCity" -> deleteCityResumed(s, call.a)
      [] call.route = "deleteBranch" -> deleteBranchResumed(s, call.a)
      [] call.route = "deleteClient" -> deleteClientResumed(s, call.a)
      [] call.route = "postDevice" /\ call.at = "Device.findOne" ->
            postDeviceFound(s, call.cookie, call.a, call.b)
      [] OTHER -> saveDevice(s, call.a, call.b)

resume(s, call) == resumeAt([s EXCEPT !.calls = @ \ {call}], call)

-----------------------------------------------------------------------------
(* The state machine *)

World ==
    [ pm |-> pm, dom |-> dom, localStorage |-> localStorage, inflight |-> inflight,
      page |-> page, now |-> now, threw |-> FALSE ]

InFlightTotal(f) == f["EKF_01"] + f["EKF_02"]

\* The handler's result becomes the next state; the clock moves on by one with
\* every request sent.  Leaving for the login page unloads the document: the
\* monitor, the page and the pending requests are gone.
CommitWithin(world, horizon) == \E w \in {world} :
    LET sent == InFlightTotal(w.inflight) - InFlightTotal(inflight)
        time == IF sent > 0 THEN now + sent ELSE now
        gone == w.page = "login"
    IN  /\ time <= horizon
        /\ pm' = IF gone THEN InitialMonitor ELSE w.pm
        /\ dom' = IF gone THEN InitialDom ELSE w.dom
        /\ localStorage' = w.localStorage
        /\ inflight' = IF gone THEN [d \in Devices |-> 0] ELSE w.inflight
        /\ page' = w.page
        /\ now' = time
        /\ server' = server

Commit(world) == CommitWithin(world, MaxTime) /\ UNCHANGED pushed

Listening == page = "running"

\* The page loads with one of these items in the local storage.
InitWith(storedItems) ==
    /\ pm = InitialMonitor
    /\ dom = InitialDom
    /\ localStorage \in storedItems
    /\ inflight = [d \in Devices |-> 0]
    /\ now = 0
    /\ page = "auth"
    /\ pushed = << >>
    /\ server = EmptyServer

\* Spec: a saved configuration, or a corrupt one.
StoredItems == {Corrupt, JSONstringify(OnlyIa)}

Init == InitWith(StoredItems)

\* The status request of checkAuth is pending: from the load of the page
\* until init, which sets the timer handle, or the redirect to the login page.
AuthPending ==
    \/ page = "auth"
    \/ page = "loggingOut" /\ pm.refreshInterval = "unset"

AuthSettled ==
    /\ AuthPending
    /\ \E authenticated \in BOOLEAN : Commit(checkAuthSettled(World, authenticated))

TimerTick ==
    /\ dom.interval = "running"
    /\ page # "login"
    /\ Commit(intervalCallback(World))

SelectDevice ==
    /\ Listening
    /\ \E d \in Devices : Commit(selectDevice(World, d))

\* The drop-down offers the devices and an empty first option.
DeviceSelectChange ==
    /\ Listening
    /\ \E value \in Devices \cup {""} : Commit(deviceSelectChange(World, value))

Pages == {"dashboard", "settings"}

ShowPage ==
    /\ Listening
    /\ \E p \in Pages : Commit(showPage(World, p))

MuteAlarm ==
    /\ Listening
    /\ Commit(muteAlarm(World))

\* What the user types into the form before saving.
Forms ==
    { [BlankForm EXCEPT ![<<"max", "currentIa">>] = Num(120)],
      [BlankForm EXCEPT ![<<"min", "voltageUa">>] = Num(199),
                        ![<<"max", "currentIa">>] = Num(101)] }

SaveSettings ==
    /\ Listening
    /\ \E f \in Forms : Commit(saveSettings([World EXCEPT !.dom.form = f]))

ResetSettings ==
    /\ Listening
    /\ Commit(resetSettings(World))

\* logout is a global function of the page: it can be called as soon as the
\* page is loaded, before the auth check has answered.
Logout ==
    /\ page \in {"auth", "running"}
    /\ Commit(logout(World))

LogoutSettled ==
    /\ page = "loggingOut"
    /\ Commit([World EXCEPT !.page = "login"])

LatestSettled ==
    /\ page # "login"
    /\ \E d \in Devices :
        /\ inflight[d] > 0
        /\ \E r \in Responses(d) : Commit(loadLatestDataSettled(World, d, r))

Next ==
    \/ AuthSettled
    \/ TimerTick
    \/ SelectDevice
    \/ DeviceSelectChange
    \/ ShowPage
    \/ MuteAlarm
    \/ Logout
    \/ LogoutSettled
    \/ LatestSettled

Spec == Init /\ [][Next]_vars

-----------------------------------------------------------------------------
(* The rolling buffer over a long run: SpecBuffer                          *)
(* The data collaborator's answer is a function of the clock, so that the  *)
(* samples of a run differ from one another in every series; `pushed`      *)
(* records the readings sampled since the last reset.                      *)

\* A reading whose every value is the normal one plus k.
Ramp(d, k) ==
    Reading(d, [g \in DOMAIN NormalPowerData |->
                    IF g = "frequency" THEN NormalPowerData[g] + k
                    ELSE [f \in DOMAIN NormalPowerData[g] |-> NormalPowerData[g][f] + k]])

\* A failure, a payload without the neutral current and one without currents
\* interrupt the run.
Answer(d, k) ==
    CASE k = 2 -> Failure
      [] k = 5 -> Body(NoIn(d))
      [] k = 23 -> Body(NoCurrents(d))
      [] OTHER -> Body(Ramp(d, k))

\* A reading with every group and every field of a full payload.
WellFormedReading(data) ==
    /\ Has(data, "powerData")
    /\ \A g \in DOMAIN NormalPowerData :
        /\ Has(data.powerData, g)
        /\ g # "frequency" => DOMAIN data.powerData[g] = DOMAIN NormalPowerData[g]

\* Answers arrive within the polling period: a tick finds no request pending.
\* The answers a sample is taken from: the well-formed ones and the one that
\* lacks the neutral current alone, whose sample has In undefined.
Sampled(data) == WellFormedReading(data) \/ data = NoIn(data.Device_ID)

BufferTick ==
    /\ Listening
    /\ dom.interval = "running"
    /\ InFlightTotal(inflight) = 0
    /\ CommitWithin(intervalCallback(World), BufferHorizon)
    /\ UNCHANGED pushed

BufferSwitch ==
    /\ Listening
    /\ InFlightTotal(inflight) < MaxInFlight
    /\ \E d \in Devices : CommitWithin(deviceSelectChange(World, d), BufferHorizon)
    /\ pushed' = << >>

BufferSettled ==
    /\ Listening
    /\ \E d \in Devices :
        /\ inflight[d] > 0
        /\ \E r \in {Answer(d, now)} :
            /\ CommitWithin(loadLatestDataSettled(World, d, r), BufferHorizon)
            /\ pushed' = IF r.ok /\ Sampled(r.data)
                         THEN Append(pushed, [time |-> now, pd |-> r.data.powerData])
                         ELSE pushed

\* SpecBuffer: a first visit, nothing saved.
InitBuffer == InitWith({Absent})

NextBuffer ==
    \/ AuthSettled
    \/ BufferTick
    \/ BufferSwitch
    \/ BufferSettled

SpecBuffer == InitBuffer /\ [][NextBuffer]_vars

-----------------------------------------------------------------------------
(* Threshold evaluation at the limits: SpecEval                            *)

\* Readings that sit on the default limits, and one unit past them.
AtLimits ==
    [NormalPowerData EXCEPT !.voltages.Ua = 200, !.voltages.Ub = 250, !.currents.Ia = 100,
                            !.activePower.Total = 150, !.powerFactor.PFa = 8]
PastLimits ==
    [NormalPowerData EXCEPT !.voltages.Ua = 199, !.voltages.Ub = 251, !.currents.Ia = 101,
                            !.activePower.Total = 151, !.powerFactor.PFa = 7]

BoundaryReadings(d) ==
    {Reading(d, AtLimits), Reading(d, PastLimits), ZeroReading(d)}

BoundarySettled ==
    /\ Listening
    /\ \E d \in Devices :
        /\ inflight[d] > 0
        /\ \E r \in BoundaryReadings(d) : Commit(loadLatestDataSettled(World, d, Body(r)))

NextEval ==
    \/ AuthSettled
    \/ DeviceSelectChange
    \/ SaveSettings
    \/ ResetSettings
    \/ BoundarySettled

\* SpecEval: a first visit, or a saved configuration.
InitEval == InitWith({Absent, JSONstringify(OnlyIa)})

SpecEval == InitEval /\ [][NextEval]_vars

-----------------------------------------------------------------------------
(* Properties *)

-----------------------------------------------------------------------------
(* Settings and mute over the life of a page: SpecSettings                 *)

\* What the user types into the form: limits one unit off the defaults, or a
\* lower limit of 0 with a higher current limit.
EnteredForms ==
    { [BlankForm EXCEPT ![<<"min", "voltageUa">>] = Num(199),
                        ![<<"max", "currentIa">>] = Num(101)],
      [BlankForm EXCEPT ![<<"min", "voltageUa">>] = Num(0),
                        ![<<"max", "currentIa">>] = Num(120)] }

SaveEntered ==
    /\ Listening
    /\ \E f \in EnteredForms : Commit(saveSettings([World EXCEPT !.dom.form = f]))

\* An answer: a failure, a reading past the default limits, one on them.
SettingsResponses(d) == {Failure, Body(Reading(d, PastLimits)), Body(Reading(d, AtLimits))}

SettingsSettled ==
    /\ Listening
    /\ \E d \in Devices :
        /\ inflight[d] > 0
        /\ \E r \in SettingsResponses(d) : Commit(loadLatestDataSettled(World, d, r))

NextSettings ==
    \/ AuthSettled
    \/ TimerTick
    \/ SelectDevice
    \/ DeviceSelectChange
    \/ MuteAlarm
    \/ SaveEntered
    \/ ResetSettings
    \/ SettingsSettled

\* SpecSettings: a first visit, nothing saved.
InitSettings == InitWith({Absent})

SpecSettings == InitSettings /\ [][NextSettings]_vars

-----------------------------------------------------------------------------
(* The server under requests: SpecServer                                   *)

clientVars == <<pm, dom, localStorage, inflight, now, page, pushed>>

\* A server that has been set up: the admin, one client with its user, one
\* registered device, stored readings of both devices, both users signed in.
SeededServer ==
    [ EmptyServer EXCEPT
        !.users = { [id |-> "u1", username |-> SetupAdminName,
                     password |-> bcryptHash(SetupAdminPassword), role |-> "admin",
                     by |-> "none"],
                    [id |-> "u2", username |-> "client1",
                     password |-> bcryptHash(SetupAdminPassword), role |-> "user",
                     by |-> "admin"] },
        !.cities = {[id |-> "c1", name |-> "Yerevan"]},
        !.branches = {[id |-> "b1", name |-> "Center", cityId |-> "c1"]},
        !.clients = {[id |-> "k1", name |-> "Plant", branchId |-> "b1", userId |-> "u2"]},
        !.devices = {[id |-> "d1", deviceId |-> "EKF_01", clientId |-> "k1",
                      name |-> "EKF_01"]},
        !.readings = << StoredReading(WithIa("EKF_01", 50), 0),
                        StoredReading(WithIa("EKF_02", 50), 0) >>,
        !.used = {"u1", "u2", "c1", "b1", "k1", "d1"},
        !.sessions = [b \in Browsers |->
                        IF b = "A"
                        THEN [userId |-> "u1", username |-> SetupAdminName, role |-> "admin"]
                        ELSE [userId |-> "u2", username |-> "client1", role |-> "user"]] ]

InitServer ==
    /\ pm = InitialMonitor
    /\ dom = InitialDom
    /\ localStorage = Absent
    /\ inflight = [d \in Devices |-> 0]
    /\ now = 0
    /\ page = "auth"
    /\ pushed = << >>
    /\ server \in {EmptyServer, SeededServer}

\* A request arrives and its handler runs to its reply or to its first await.
Serve(s) ==
    /\ server.served < MaxRequests
    /\ server' = [s EXCEPT !.served = @ + 1]
    /\ UNCHANGED clientVars

Cookies == Browsers \cup {NoCookie}

\* One handler at an await per browser.
Free(cookie) == \A call \in server.calls : call.cookie # cookie

\* What the device EKF_02 posts: its reading of the moment, or a backdated
\* one.
DeviceBodies ==
    {WithIa("EKF_02", 50)}
        \cup {[Device_ID |-> "EKF_02", powerData |-> WithIa("EKF_02", 120).powerData,
               timestamp |-> 0]}

\* A request the middleware refuses is refused whatever else it carries: one
\* such request stands for all of them.
One(inputs) == {CHOOSE x \in inputs : TRUE}
ForUser(cookie, inputs) == IF requireAuth(server, cookie) THEN inputs ELSE One(inputs)
ForAdmin(cookie, inputs) == IF requireAdmin(server, cookie) THEN inputs ELSE One(inputs)

PostData ==
    \E apiKey \in {DEVICE_API_KEY, ""} :
        \E body \in IF apiKey = DEVICE_API_KEY THEN DeviceBodies ELSE One(DeviceBodies) :
            Serve(postData(server, apiKey, body))

GetLatest ==
    \E cookie \in Cookies :
        \E device \in ForUser(cookie, Devices \cup {""}) :
            \E order \in ForUser(cookie, NewestFirst(server.readings, QueryDevice(device))) :
                Serve(getLatest(server, cookie, device, order))

GetHistory ==
    \E cookie \in Cookies :
        \E q \in ForUser(cookie, Devices \X {"", "1"}) :
            \E order \in ForUser(cookie, NewestFirst(server.readings, QueryDevice(q[1]))) :
                Serve(getHistory(server, cookie, q[1], q[2], order))

Login ==
    \E cookie \in Browsers, username \in Usernames, password \in Passwords :
        Serve(login(server, cookie, username, password))

LogoutRoute ==
    \E cookie \in Browsers : Serve(logoutRoute(server, cookie))

GetMyDevices ==
    \E cookie \in Cookies : Serve(myDevices(server, cookie))

PostCity ==
    /\ CanCreate(server, CityIds)
    /\ \E cookie \in Cookies :
        \E name \in ForAdmin(cookie, CityNames \cup {""}) :
            Serve(postCity(server, cookie, name))

PutCity ==
    \E cookie \in Cookies :
        \E q \in ForAdmin(cookie, CityIds \X CityNames) :
            Serve(putCity(server, cookie, q[1], q[2]))

DeleteCity ==
    \E cookie \in Cookies :
        \E id \in ForAdmin(cookie, CityIds) :
            Free(cookie) /\ Serve(deleteCity(server, cookie, id))

PostBranch ==
    /\ CanCreate(server, BranchIds)
    /\ \E cookie \in Cookies :
        \E q \in ForAdmin(cookie, {"Center"} \X (CityIds \cup {""})) :
            Serve(postBranch(server, cookie, q[1], q[2]))

PutBranch ==
    \E cookie \in Cookies :
        \E q \in ForAdmin(cookie, BranchIds \X CityIds) :
            Serve(putBranch(server, cookie, q[1], "", q[2]))

DeleteBranch ==
    \E cookie \in Cookies :
        \E id \in ForAdmin(cookie, BranchIds) :
            Free(cookie) /\ Serve(deleteBranch(server, cookie, id))

\* A client is created with a user of its own, or without one.
Credentials == ({"client1"} \X Passwords) \cup {<<"", "">>}

PostClient ==
    /\ CanCreate(server, ClientIds)
    /\ CanCreate(server, UserIds)
    /\ \E cookie \in Cookies :
        \E q \in ForAdmin(cookie, BranchIds \X Credentials) :
            Serve(postClient(server, cookie, "Plant", q[1], q[2][1], q[2][2]))

PutClient ==
    \E cookie \in Cookies :
        \E q \in ForAdmin(cookie, ClientIds \X BranchIds) :
            Serve(putClient(server, cookie, q[1], "", q[2]))

DeleteClient ==
    \E cookie \in Cookies :
        \E id \in ForAdmin(cookie, ClientIds) :
            Free(cookie) /\ Serve(deleteClient(server, cookie, id))

PostDevice ==
    \E cookie \in Cookies :
        \E q \in ForAdmin(cookie, (Devices \cup {""}) \X ClientIds) :
            Free(cookie) /\ Serve(postDevice(server, cookie, q[1], q[2]))

PutDevice ==
    \E cookie \in Cookies :
        \E q \in ForAdmin(cookie, DeviceDocIds \X ClientIds) :
            Serve(putDevice(server, cookie, q[1], "", q[2]))

DeleteDevice ==
    \E cookie \in Cookies :
        \E id \in ForAdmin(cookie, DeviceDocIds) :
            Serve(deleteDevice(server, cookie, id))

SetupAdmin ==
    /\ CanCreate(server, UserIds)
    /\ \E cookie \in Cookies : Serve(setupAdmin(server, cookie))

RegisterAdmin ==
    /\ CanCreate(server, UserIds)
    /\ \E cookie \in Cookies :
        \E q \in ForAdmin(cookie, Usernames \X Passwords) :
            Serve(registerAdmin(server, cookie, q[1], q[2]))

\* The database answers a waiting handler, which runs on.
Resume ==
    \E call \in server.calls :
        /\ call.at = "save" => CanCreate(server, DeviceDocIds)
        /\ server' = resume(server, call)
        /\ UNCHANGED clientVars

NextServer ==
    \/ PostData
    \/ GetLatest
    \/ GetHistory
    \/ Login
    \/ LogoutRoute
    \/ GetMyDevices
    \/ PostCity
    \/ PutCity
    \/ DeleteCity
    \/ PostBranch
    \/ PutBranch
    \/ DeleteBranch
    \/ PostClient
    \/ PutClient
    \/ DeleteClient
    \/ PostDevice
    \/ PutDevice
    \/ DeleteDevice
    \/ SetupAdmin
    \/ RegisterAdmin
    \/ Resume

SpecServer == InitServer /\ [][NextServer]_vars

NoRequests == [d \in Devices |-> 0]
AlarmSet(alarms) == {alarms[i] : i \in DOMAIN alarms}
Last(s) == s[Len(s)]

\* C1: when the request of a device that is no longer the selected one
\* settles, the reading on display (currentData, display values, violation
\* set, banner) is not overwritten and no sample enters the buffer.
C1_StaleResponseIgnored ==
    [][\A d \in Devices :
        (inflight'[d] < inflight[d] /\ page' = "running"
            /\ pm.deviceSelected /\ pm.currentDevice # d)
        => /\ pm'.currentData = pm.currentData
           /\ dom'.display = dom.display
           /\ pm'.activeAlarms = pm.activeAlarms
           /\ dom'.alarmBanner = dom.alarmBanner
           /\ pm'.chartData = pm.chartData]_vars

\* C2: a handler that changes the selected device from one device to another
\* leaves the buffer empty and the violation set empty.
C2_SwitchClearsBufferAndAlarms ==
    [][(pm.deviceSelected /\ pm'.deviceSelected /\ pm'.currentDevice # pm.currentDevice)
        => /\ pm'.chartData = EmptyChartData
           /\ pm'.activeAlarms = << >>]_vars

\* C3: the time labels and every series hold exactly the last min(N, 20) of
\* the N samples pushed since the last reset, in push order, oldest first.
C3_BufferFifo ==
    LET n == Len(pushed)
        k == IF n < 20 THEN n ELSE 20
        last == SubSeq(pushed, n - k + 1, n)
        cd == pm.chartData
    IN  /\ cd.timestamps = [i \in 1..k |-> last[i].time]
        /\ \A x \in {"Ua", "Ub", "Uc"} :
            cd.voltages[x] = [i \in 1..k |-> last[i].pd.voltages[x]]
        /\ \A x \in {"Ia", "Ib", "Ic", "In"} :
            cd.currents[x] = [i \in 1..k |-> Field(last[i].pd, "currents", x)]
        /\ \A x \in {"Pa", "Pb", "Pc", "Total"} :
            cd.powers[x] = [i \in 1..k |-> last[i].pd.activePower[x]]

C3_Witness ==
    /\ Len(pushed) = 21
    /\ Len(pm.chartData.timestamps) = 20
    /\ pm.chartData.timestamps[1] = pushed[2].time
    /\ pm.chartData.currents.Ia[20] = pushed[21].pd.currents.Ia
    /\ WellFormedReading([powerData |-> pushed[21].pd])

\* C4: in every state, every series of the buffer is as long as the sequence
\* of time labels, which is never longer than 20.
C4_SynchronizedLengths ==
    LET cd == pm.chartData
        n == Len(cd.timestamps)
    IN  /\ n <= 20
        /\ \A x \in DOMAIN cd.voltages : Len(cd.voltages[x]) = n
        /\ \A x \in DOMAIN cd.currents : Len(cd.currents[x]) = n
        /\ \A x \in DOMAIN cd.powers : Len(cd.powers[x]) = n
        /\ DOMAIN cd.voltages = {"Ua", "Ub", "Uc"}
        /\ DOMAIN cd.currents = {"Ia", "Ib", "Ic", "In"}
        /\ DOMAIN cd.powers = {"Pa", "Pb", "Pc", "Total"}

\* A full buffer that a failed or malformed answer has just left alone.
C4_Witness ==
    /\ Len(pm.chartData.timestamps) = 20
    /\ Len(pm.chartData.powers.Total) = 20
    /\ dom.connectionStatus = "Offline"

\* The reading field a parameter is compared on.
ValueOf(pd, p) == pd[CheckPlan[CheckIndex[p]][2]][CheckPlan[CheckIndex[p]][3]]

Violates(settings, p, v) ==
    /\ Has(settings, p)
    /\ \/ Has(settings[p], "min") /\ v < settings[p].min
       \/ Has(settings[p], "max") /\ v > settings[p].max

\* C5: after an answer with a well-formed reading has been evaluated, the
\* violation set is exactly the set of parameters with limits whose value is
\* below min or above max; a value equal to a limit is no violation, a value
\* one unit past it is; a parameter without limits is never in the set.
C5_ThresholdEvaluation ==
    [][(InFlightTotal(inflight') < InFlightTotal(inflight) /\ page' = "running"
            /\ WellFormedReading(pm'.currentData) /\ dom'.connectionStatus = "Online")
        => LET pd == pm'.currentData.powerData
               settings == pm'.alarmSettings
               set == AlarmSet(pm'.activeAlarms)
           IN  /\ set = {p \in Params : Violates(settings, p, ValueOf(pd, p))}
               /\ Cardinality(set) = Len(pm'.activeAlarms)
               /\ \A p \in Params :
                    /\ ~Has(settings, p) => p \notin set
                    /\ Has(settings, p) /\ Has(settings[p], "min") =>
                        /\ ValueOf(pd, p) = settings[p].min - 1 => p \in set
                        /\ ValueOf(pd, p) = settings[p].min /\ ~Has(settings[p], "max")
                                => p \notin set
                    /\ Has(settings, p) /\ Has(settings[p], "max") =>
                        /\ ValueOf(pd, p) = settings[p].max + 1 => p \in set
                        /\ ValueOf(pd, p) = settings[p].max /\ ~Has(settings[p], "min")
                                => p \notin set]_vars

\* Saved limits min Ua 199 and max Ia 101, and a reading with Ua 199, Ia 101
\* (on the limits) and Ub 251, P total 151, PFa 0.7 (one unit past them).
C5_Witness ==
    /\ Has(pm.currentData, "powerData")
    /\ pm.currentData.powerData = PastLimits
    /\ DOMAIN pm.alarmSettings = Params
    /\ pm.alarmSettings["voltageUa"].min = 199
    /\ pm.alarmSettings["currentIa"].max = 101
    /\ pm.activeAlarms = <<"voltageUb", "activePowerTotal", "powerFactorA">>
    /\ dom.led[CheckIndex["voltageUa"]] = "led normal"

\* C6: with the limits {currentIa: {max: 100}}, every answer that pushes a
\* sample leaves the violation set that this sample alone determines,
\* {currentIa} when Ia > 100 and {} otherwise, whatever the set was before,
\* and the banner is visible exactly when Ia > 100.
C6_NoHysteresis ==
    [][(pm.alarmSettings = OnlyIa
            /\ Len(pm'.chartData.timestamps) = Len(pm.chartData.timestamps) + 1)
        => LET ia == Last(pm'.chartData.currents.Ia)
           IN  /\ pm'.activeAlarms = IF ia > 100 THEN <<"currentIa">> ELSE << >>
               /\ dom'.alarmBanner = "shown" <=> ia > 100]_vars

\* Three ticks with Ia = 50, 120, 90: the alarm of the second is gone.
C6_Witness ==
    /\ pm.alarmSettings = OnlyIa
    /\ pm.chartData.currents.Ia = <<50, 120, 90>>
    /\ pm.activeAlarms = << >>
    /\ dom.alarmBanner = "hidden"

\* C7: the banner is visible exactly when the violation set is non-empty.
C7_BannerIffAlarms ==
    dom.alarmBanner = "shown" <=> Len(pm.activeAlarms) > 0

\* Violations on display while offline, after a switch to another device.
C7_Witness ==
    /\ Len(pm.activeAlarms) > 0
    /\ dom.alarmBanner = "shown"
    /\ dom.connectionStatus = "Offline"
    /\ Has(pm.currentData, "Device_ID")
    /\ pm.currentData.Device_ID # pm.currentDevice

\* C8: the mute action on a non-empty violation set sets the flag, stops the
\* sound and leaves the banner visible with its text; while the flag is set
\* the sound never plays, whatever the alarm updates find.
C8_MuteIndependence ==
    /\ [][(pm'.isAlarmMuted /\ ~pm.isAlarmMuted /\ Len(pm.activeAlarms) > 0)
            => /\ dom'.alarmSound = "paused"
               /\ dom'.alarmBanner = "shown"
               /\ dom.alarmBanner = "shown"
               /\ dom'.alarmMessage = dom.alarmMessage
               /\ dom'.alarmStatus = dom.alarmStatus
               /\ pm'.activeAlarms = pm.activeAlarms]_vars
    /\ [](pm.isAlarmMuted => dom.alarmSound = "paused")

\* Muted, and a later answer has found a violation: banner up, no sound.
C8_Witness ==
    /\ pm.isAlarmMuted
    /\ pm.activeAlarms = <<"currentIa">>
    /\ pm.chartData.currents.Ia = <<120, 90, 120>>
    /\ dom.alarmBanner = "shown"
    /\ dom.alarmSound = "paused"

\* C9: the sound plays exactly when the violation set is non-empty and the
\* mute flag is false; with an empty set it is stopped.
C9_SoundIffAlarmsAndNotMuted ==
    dom.alarmSound = "playing" <=> (Len(pm.activeAlarms) > 0 /\ ~pm.isAlarmMuted)

\* The sound has played and an answer without violations has stopped it.
C9_Witness ==
    /\ pm.chartData.currents.Ia = <<120, 90>>
    /\ ~pm.isAlarmMuted
    /\ pm.activeAlarms = << >>
    /\ dom.alarmSound = "paused"
    /\ dom.alarmStatus.className = "status-normal"

\* C10: while no device is selected no request is pending, nothing is drawn,
\* the buffer, the violation set and the connectivity are as at the start,
\* and a timer tick changes nothing.
C10_UnselectedTickNoOp ==
    /\ [](~pm.deviceSelected =>
            /\ inflight = NoRequests
            /\ pm.chartData = EmptyChartData
            /\ dom.charts = EmptyChartData
            /\ pm.activeAlarms = << >>
            /\ dom.alarmBanner = "hidden"
            /\ dom.connectionStatus = "html"
            /\ pm.currentData = null)
    /\ [][(TimerTick /\ ~pm.deviceSelected) => UNCHANGED vars]_vars

\* The timer runs, the placeholder is up and no device is selected.
C10_Witness ==
    /\ page = "running"
    /\ dom.interval = "running"
    /\ ~pm.deviceSelected
    /\ dom.selectDeviceMsg = "flex"
    /\ now = 0

\* C11: a handler that selects a device (selectDevice, or the change listener
\* of the drop-down) issues exactly one latest-reading request, into a buffer
\* it has just emptied.
C11_SelectionFetchesOnce ==
    [][(SelectDevice \/ DeviceSelectChange)
        => /\ InFlightTotal(inflight') = InFlightTotal(inflight) + 1
           /\ pm'.chartData = EmptyChartData]_vars

\* C12: when a latest-reading request fails (the promise rejects or the
\* status is not OK) the connectivity indicator reads Offline and nothing else
\* changes: the monitor object (last reading, buffer, violation set, mute flag)
\* and every other element of the page (display values, LEDs, banner, sound,
\* charts) are as before.
C12_FailureOnlyMarksOffline ==
    [][\A d \in Devices :
        (inflight[d] > 0 /\ page # "login"
            /\ Commit(loadLatestDataSettled(World, d, Failure)))
        => /\ dom'.connectionStatus = "Offline"
           /\ pm' = pm
           /\ \A e \in (DOMAIN dom) \ {"connectionStatus"} : dom'[e] = dom[e]
           /\ localStorage' = localStorage]_vars

\* A failure after a reading in alarm: the reading, its sample, its violation
\* and the banner are still there.
C12_Witness ==
    /\ dom.connectionStatus = "Offline"
    /\ \E d \in Devices : pm.currentData = WithIa(d, 120)
    /\ pm.chartData.currents.Ia = <<120>>
    /\ pm.activeAlarms = <<"currentIa">>
    /\ dom.alarmBanner = "shown"
    /\ InFlightTotal(inflight) = 0

\* C13: an answer whose reading is structurally incomplete (no powerData, or
\* a group of it missing) is handled as a failed request: the connectivity
\* indicator reads Offline and no display value, no LED, no sample of the
\* buffer and nothing of the alarm state changes.
C13_IncompleteReadingIsFailure ==
    [][\A d \in Devices : \A r \in Malformed(d) :
        (inflight[d] > 0 /\ page # "login"
            /\ Commit(loadLatestDataSettled(World, d, Body(r))))
        => /\ dom'.connectionStatus = "Offline"
           /\ dom'.display = dom.display
           /\ dom'.led = dom.led
           /\ pm'.chartData = pm.chartData
           /\ pm'.activeAlarms = pm.activeAlarms
           /\ dom'.alarmBanner = dom.alarmBanner]_vars

\* C14: when the stored threshold configuration cannot be parsed, the
\* initialisation that follows a successful auth check ends with the built-in
\* default limits in force, the page running and the poll timer started.
C14_CorruptSettingsFallBack ==
    [][(page = "auth" /\ localStorage = Corrupt /\ Commit(checkAuthSettled(World, TRUE)))
        => /\ page' = "running"
           /\ pm'.alarmSettings = DefaultAlarmSettings
           /\ dom'.interval = "running"]_vars

\* C15: at most one latest-reading request is outstanding at any time,
\* whichever of the timer, a device selection and showPage sent it.
C15_SingleFlight ==
    InFlightTotal(inflight) <= 1

\* C16: within a poll tick the charts are redrawn after the buffer update and
\* the alarm evaluation of the reading fetched in that tick: the handler that
\* pushes the tick's sample leaves the charts drawn from the buffer with that
\* sample in it.
C16_RedrawAfterBufferUpdate ==
    [][(pm'.chartData # pm.chartData /\ pm'.chartData # EmptyChartData)
        => dom'.charts = pm'.chartData]_vars

\* C17: once logout has run, the poll timer is not running, and until the
\* page is left no handler sends a latest-reading request or redraws the
\* charts.
C17_TeardownStopsPolling ==
    /\ [](page = "loggingOut" => dom.interval # "running")
    /\ [][(page = "loggingOut" /\ page' # "login")
            => /\ InFlightTotal(inflight') <= InFlightTotal(inflight)
               /\ dom'.charts = dom.charts]_vars

\* C18: while the page runs with a device selected, the timer is running and
\* its callback sends one request for the selected device whatever happened
\* before (no backoff, no retry limit, nothing that disables polling); and
\* every answer with a well-formed reading sets the connectivity to Online: a
\* step that settles a request and leaves it otherwise is not the handling of
\* such an answer, whose reading would be the current one afterwards.
C18_RetryUnconditional ==
    /\ []((page = "running" /\ pm.deviceSelected)
            => /\ dom.interval = "running"
               /\ pm.currentDevice \in Devices
               /\ intervalCallback(World).inflight
                    = [inflight EXCEPT ![pm.currentDevice] = @ + 1])
    /\ [][\A d \in Devices :
            (inflight'[d] = inflight[d] - 1 /\ page # "login"
                /\ dom'.connectionStatus # "Online"
                /\ pm'.currentData \in WellFormed(d))
            => ~Commit(loadLatestDataSettled(World, d, Body(pm'.currentData)))]_vars

\* The first request failed and a second one is on its way.
C18_Witness ==
    /\ page = "running"
    /\ dom.connectionStatus = "Offline"
    /\ pm.currentData = null
    /\ pm.deviceSelected
    /\ inflight[pm.currentDevice] = 1
    /\ now = 2

\* The text updateAlarmBanner writes for a non-empty violation set: the first
\* three names and whether the ellipsis follows.
BannerText(alarms) ==
    [ written |-> TRUE,
      names |-> [i \in 1..(IF Len(alarms) < 3 THEN Len(alarms) ELSE 3) |-> alarms[i]],
      more |-> Len(alarms) > 3 ]

\* The violation set lists its parameters in the order of evaluation.
InEvaluationOrder(alarms) ==
    \A i, j \in DOMAIN alarms : i < j => CheckIndex[alarms[i]] < CheckIndex[alarms[j]]

\* C19, as claimed: the banner text lists the first 3 violating parameters in
\* evaluation order, with the ellipsis exactly when more than 3 are violating,
\* and when the violation set is empty there is no banner text.
C19_NoTextWhenEmpty ==
    /\ InEvaluationOrder(pm.activeAlarms)
    /\ IF Len(pm.activeAlarms) > 0
       THEN dom.alarmMessage = BannerText(pm.activeAlarms)
       ELSE dom.alarmMessage.names = << >> /\ ~dom.alarmMessage.more

\* C19, amended: the banner text lists the first 3 violating parameters in
\* evaluation order, with the ellipsis exactly when more than 3 are violating;
\* when the violation set is empty the banner is hidden and the message
\* element is left as it was: it has never been written, or it still holds the
\* text of an earlier, non-empty update.
C19_BannerText ==
    /\ [](/\ InEvaluationOrder(pm.activeAlarms)
          /\ IF Len(pm.activeAlarms) > 0
             THEN /\ dom.alarmMessage = BannerText(pm.activeAlarms)
                  /\ dom.alarmBanner = "shown"
             ELSE /\ dom.alarmBanner = "hidden"
                  /\ dom.alarmMessage.written => Len(dom.alarmMessage.names) > 0)
    /\ [][(Len(pm'.activeAlarms) = 0 /\ page' # "login")
            => dom'.alarmMessage = dom.alarmMessage]_vars

\* Five parameters past the default limits: three names and the ellipsis.
C19_Witness ==
    /\ pm.activeAlarms =
        <<"voltageUa", "voltageUb", "currentIa", "activePowerTotal", "powerFactorA">>
    /\ dom.alarmMessage.names = <<"voltageUa", "voltageUb", "currentIa">>
    /\ dom.alarmMessage.more
    /\ dom.alarmBanner = "shown"

\* C20: once a device is selected, one stays selected in every later state of
\* the page: no handler (a failed request, a switch to another device, a tick,
\* mute, logout) clears deviceSelected or the device; only leaving the page
\* does.
C20_NeverUnselected ==
    [][(pm.deviceSelected /\ page' # "login")
        => /\ pm'.deviceSelected
           /\ pm'.currentDevice \in Devices]_vars

\* Selected still, after a switch away from the device of the last reading and
\* a failed request.
C20_Witness ==
    /\ pm.deviceSelected
    /\ pm.currentDevice = "EKF_02"
    /\ pm.currentData = WithIa("EKF_01", 50)
    /\ dom.connectionStatus = "Offline"
    /\ pm.chartData = EmptyChartData
    /\ dom.dashboard = "block"

-----------------------------------------------------------------------------
\* C21: a device switch preserves the mute flag: after selectDevice, or the
\* change listener of the drop-down, isAlarmMuted has the value it had before.
C21_SwitchKeepsMute ==
    [][(SelectDevice \/ DeviceSelectChange) => pm'.isAlarmMuted = pm.isAlarmMuted]_vars

\* A muted page that shows the last reading of EKF_01 and has switched to
\* EKF_02, whose first answer is still on its way.
C21_Witness ==
    /\ pm.isAlarmMuted
    /\ pm.currentDevice = "EKF_02"
    /\ pm.currentData # null
    /\ pm.currentData.Device_ID = "EKF_01"
    /\ pm.chartData = EmptyChartData
    /\ inflight["EKF_02"] > 0

-----------------------------------------------------------------------------
\* The thresholds or their stored copy differ after a step on the loaded page.
ThresholdsChanged ==
    /\ page = "running"
    /\ page' # "login"
    /\ pm'.alarmSettings # pm.alarmSettings \/ localStorage' # localStorage

\* C22 as stated: on the loaded page the thresholds and their persisted copy
\* change only by a "save settings" action.
C22_OnlySaveMutates ==
    [][ThresholdsChanged => SaveEntered]_vars

\* C22: on the loaded page the thresholds and their persisted copy change
\* only by saving or resetting the settings; ticks, answers (successful or
\* failed), device selections and mute leave both unchanged; the persisted
\* copy is the current set; every alarm evaluation reads the current set.
C22_SettingsFrame ==
    /\ [][ThresholdsChanged => (SaveEntered \/ ResetSettings)]_vars
    /\ [][(pm'.alarmSettings # pm.alarmSettings \/ localStorage' # localStorage)
            => ~(TimerTick \/ SettingsSettled \/ SelectDevice \/ DeviceSelectChange
                    \/ MuteAlarm)]_vars
    /\ [](page = "running" => localStorage = JSONstringify(pm.alarmSettings))
    /\ [][(InFlightTotal(inflight') < InFlightTotal(inflight) /\ page' = "running"
            /\ WellFormedReading(pm'.currentData) /\ dom'.connectionStatus = "Online")
        => AlarmSet(pm'.activeAlarms) =
            {p \in Params :
                Violates(pm.alarmSettings, p, ValueOf(pm'.currentData.powerData, p))}]_vars

\* Saved limits min Ua 199 and max Ia 101 are in force and stored, and the
\* reading evaluated under them (Ua 199, Ia 101) raises neither parameter.
C22_Witness ==
    /\ page = "running"
    /\ pm.alarmSettings["voltageUa"].min = 199
    /\ pm.alarmSettings["currentIa"].max = 101
    /\ localStorage = JSONstringify(pm.alarmSettings)
    /\ Has(pm.currentData, "powerData")
    /\ pm.currentData.powerData = PastLimits
    /\ pm.activeAlarms = <<"voltageUb", "activePowerTotal", "powerFactorA">>
    /\ dom.connectionStatus = "Online"

-----------------------------------------------------------------------------
\* The newest sample of every series of the buffer is the reading's value.
NewestFrom(cd, pd) ==
    /\ Len(cd.timestamps) > 0
    /\ \A x \in {"Ua", "Ub", "Uc"} : Last(cd.voltages[x]) = pd.voltages[x]
    /\ \A x \in {"Ia", "Ib", "Ic", "In"} : Last(cd.currents[x]) = pd.currents[x]
    /\ \A x \in {"Pa", "Pb", "Pc", "Total"} : Last(cd.powers[x]) = pd.activePower[x]

\* Every series and the time labels have grown by one sample (a full buffer
\* keeps its length).
GrownByOne(old, new) ==
    LET Next1(s) == IF Len(s) < Capacity THEN Len(s) + 1 ELSE Capacity
    IN  /\ Len(new.timestamps) = Next1(old.timestamps)
        /\ \A x \in DOMAIN new.voltages : Len(new.voltages[x]) = Next1(old.voltages[x])
        /\ \A x \in DOMAIN new.currents : Len(new.currents[x]) = Next1(old.currents[x])
        /\ \A x \in DOMAIN new.powers : Len(new.powers[x]) = Next1(old.powers[x])

\* C24: a fetch handler that completes on the loaded page either succeeds,
\* and then it has appended one time label and one value to every series and
\* the newest sample, currentData and the violation set all come from the
\* reading it received, or fails, and then it has appended nothing and the
\* buffer, currentData and the violation set are those of the reading before.
C24_PerFetchConsistency ==
    [][(InFlightTotal(inflight') < InFlightTotal(inflight) /\ page' = "running")
        => \/ /\ dom'.connectionStatus = "Online"
              /\ WellFormedReading(pm'.currentData)
              /\ GrownByOne(pm.chartData, pm'.chartData)
              /\ NewestFrom(pm'.chartData, pm'.currentData.powerData)
              /\ AlarmSet(pm'.activeAlarms) =
                    {p \in Params : Violates(pm'.alarmSettings, p,
                                             ValueOf(pm'.currentData.powerData, p))}
           \/ /\ dom'.connectionStatus = "Offline"
              /\ pm'.chartData = pm.chartData
              /\ pm'.currentData = pm.currentData
              /\ pm'.activeAlarms = pm.activeAlarms]_vars

-----------------------------------------------------------------------------
\* C28: mute is permanent: once the flag is set, no step that stays on the
\* page (an answer, a failure, a tick, a device selection, saving or
\* resetting the settings) clears it, and while it is set the sound is
\* paused, whatever violations appear.
C28_MutePermanent ==
    /\ [][(pm.isAlarmMuted /\ page' # "login") => pm'.isAlarmMuted]_vars
    /\ [](pm.isAlarmMuted => dom.alarmSound = "paused")

\* Muted, with the three answers past the limits, on them and past them
\* again: the violations have gone and come back, the banner is up, no sound.
C28_Witness ==
    /\ pm.isAlarmMuted
    /\ pm.chartData.currents.Ia = <<101, 100, 101>>
    /\ Len(pm.activeAlarms) > 0
    /\ dom.alarmBanner = "shown"
    /\ dom.alarmSound = "paused"

-----------------------------------------------------------------------------
\* The page loaded anew over the stored item: a fresh monitor and document.
Reloaded(item) ==
    [ pm |-> InitialMonitor, dom |-> InitialDom, localStorage |-> item,
      inflight |-> NoRequests, page |-> "auth", now |-> 0, threw |-> FALSE ]

\* C29: saveSettings followed by loadAlarmSettings on a reloaded page yields,
\* for every field of the form that holds a number (0 included), a threshold
\* equal to that number, and the set in force after the save is that same set.
C29_SettingsRoundTrip ==
    [][SaveEntered =>
        \A f \in FormFields :
            Has(dom'.form[f], "num") =>
                /\ Has(loadAlarmSettings(Reloaded(localStorage')).pm.alarmSettings, f[2])
                /\ loadAlarmSettings(Reloaded(localStorage')).pm.alarmSettings[f[2]][f[1]]
                        = dom'.form[f].num
                /\ pm'.alarmSettings[f[2]][f[1]] = dom'.form[f].num]_vars

-----------------------------------------------------------------------------
\* A payload with every group and every field of the schema, all 0.
ZeroedComplete(pd) ==
    /\ DOMAIN pd = DOMAIN powerDataSchema
    /\ \A g \in DOMAIN powerDataSchema :
        IF g = "frequency" THEN pd[g] = 0
        ELSE /\ DOMAIN pd[g] = powerDataSchema[g]
             /\ \A f \in powerDataSchema[g] : pd[g][f] = 0

\* C23: GET /api/data/latest for a device id, from a signed-in session,
\* answers 200 with a reading of that device: the zeroed complete reading
\* when none is stored for it, and otherwise a stored reading of that device
\* that no stored reading of the device is newer than.
C23_LatestReading ==
    [][\A cookie \in Browsers, device \in Devices :
        \A order \in NewestFirst(server.readings, device) :
            (requireAuth(server, cookie) /\ Serve(getLatest(server, cookie, device, order)))
            => LET body == server'.reply.body
                   stored == Of(server.readings, device)
               IN  /\ server'.reply.status = 200
                   /\ body.Device_ID = device
                   /\ stored = {} => (DOMAIN body = {"Device_ID", "powerData"}
                                        /\ ZeroedComplete(body.powerData))
                   /\ stored # {} =>
                        \E i \in stored :
                            /\ body = server.readings[i]
                            /\ \A j \in stored :
                                server.readings[j].timestamp <= server.readings[i].timestamp
                   /\ server'.readings = server.readings]_vars

\* The reply is the reading EKF_02 sent at time 1 or later, although a
\* backdated reading of EKF_02 was stored after it.
C23_Witness ==
    /\ server.reply.status = 200
    /\ \E i, j \in DOMAIN server.readings :
        /\ i < j
        /\ server.readings[i].Device_ID = "EKF_02"
        /\ server.readings[j].Device_ID = "EKF_02"
        /\ server.readings[i].timestamp > server.readings[j].timestamp
        /\ server.reply.body = server.readings[i]

-----------------------------------------------------------------------------
\* C25: only admins create admins: every account with role 'admin' that a
\* request adds was added by a request from a session whose role is 'admin'.
C25_OnlyAdminsCreateAdmins ==
    [][\A u \in server'.users :
        (u \notin server.users /\ u.role = "admin") => u.by = "admin"]_vars

-----------------------------------------------------------------------------
\* No orphan: every branch references an existing city, every client an
\* existing branch, every registered device an existing client.
NoOrphan(s) ==
    /\ \A b \in s.branches : \E c \in s.cities : c.id = b.cityId
    /\ \A k \in s.clients : \E b \in s.branches : b.id = k.branchId
    /\ \A d \in s.devices : \E k \in s.clients : k.id = d.clientId

\* The request of this step got the status, and no collection changed.
Rejected(status) ==
    /\ server'.reply.status = status
    /\ server'.cities = server.cities
    /\ server'.branches = server.branches
    /\ server'.clients = server.clients
    /\ server'.devices = server.devices
    /\ server'.calls = server.calls

\* A city, branch or client that has children is not deleted: the request
\* is answered 400 and removes nothing.
DeleteWithChildrenRejected ==
    \A cookie \in Browsers :
        requireAdmin(server, cookie) =>
            /\ \A id \in CityIds :
                ((\E b \in server.branches : b.cityId = id)
                    /\ Serve(deleteCity(server, cookie, id))) => Rejected(400)
            /\ \A id \in BranchIds :
                ((\E k \in server.clients : k.branchId = id)
                    /\ Serve(deleteBranch(server, cookie, id))) => Rejected(400)
            /\ \A id \in ClientIds :
                ((\E d \in server.devices : d.clientId = id)
                    /\ Serve(deleteClient(server, cookie, id))) => Rejected(400)

\* C26: deleting a city, branch or client that has children is rejected with
\* 400 and removes nothing, and in every state no branch, client or
\* registered device is an orphan.
C26_HierarchyIntegrity ==
    /\ [][DeleteWithChildrenRejected]_vars
    /\ [](NoOrphan(server))

-----------------------------------------------------------------------------
\* Every registered device has a deviceId of its own, for which a reading is
\* stored.
RegistryWellFormed(s) ==
    \A d \in s.devices :
        /\ \A e \in s.devices : e.deviceId = d.deviceId => e = d
        /\ Of(s.readings, d.deviceId) # {}

\* A registration of an id without a stored reading is answered 400 where it
\* starts; a registration that finds its id registered, at the lookup or at
\* the save, is answered with an error. Neither registers anything.
BadRegistrationRejected ==
    /\ \A cookie \in Browsers : \A deviceId \in Devices : \A clientId \in ClientIds :
        (/\ requireAdmin(server, cookie)
         /\ Of(server.readings, deviceId) = {}
         /\ Serve(postDevice(server, cookie, deviceId, clientId)))
            => /\ server'.reply.status = 400
               /\ server'.devices = server.devices
               /\ server'.calls = server.calls
    /\ \A call \in server.calls :
        (/\ call.route = "postDevice"
         /\ \E d \in server.devices : d.deviceId = call.a
         /\ server' = resume(server, call))
            => /\ server'.reply.status \in {400, 500}
               /\ server'.devices = server.devices
               /\ call \notin server'.calls

\* Unregistering leaves the stored readings as they are.
UnregisterKeepsReadings ==
    (server'.devices # server.devices /\ server'.devices \subseteq server.devices)
        => server'.readings = server.readings

\* C27: in every state every registered device has a deviceId no other
\* registered device has and a stored reading; a registration violating
\* either condition is rejected with an error and registers nothing; and
\* unregistering a device leaves its stored readings unchanged.
C27_DeviceRegistry ==
    /\ [](RegistryWellFormed(server))
    /\ [][BadRegistrationRejected /\ UnregisterKeepsReadings]_vars

\* Two admin sessions registered EKF_02 concurrently: one save succeeded, the
\* other was refused by the unique index.
C27_Witness ==
    /\ server.reply = [status |-> 500,
                       body |-> Error(<<"E11000 duplicate key error", "deviceId_1">>)]
    /\ server.calls = {}
    /\ \E d \in server.devices : d.deviceId = "EKF_02"
    /\ \E d \in server.devices : d.deviceId = "EKF_01"

-----------------------------------------------------------------------------
\* The device ids /api/my/devices returns to the session of the cookie.
MyDeviceIds(s, cookie) ==
    {d.deviceId : d \in MyDevices(s, s.sessions[cookie].userId)}

StoredReadings(s) == {s.readings[i] : i \in DOMAIN s.readings}

\* A request without a session gets 401 from both reading routes, and no
\* reading.
UnauthenticatedGetsNothing ==
    \A cookie \in Cookies : \A device \in Devices :
        ~requireAuth(server, cookie) =>
            /\ Serve(getLatest(server, cookie, device, <<>>)) =>
                (server'.reply.status = 401 /\ server'.reply.body \notin StoredReadings(server))
            /\ Serve(getHistory(server, cookie, device, "", <<>>)) =>
                (server'.reply.status = 401 /\ server'.reply.body \notin StoredReadings(server))

\* What a non-admin session gets from the reading routes holds stored
\* readings of its own devices only.
UserGetsOwnReadingsOnly ==
    \A cookie \in Browsers : \A device \in Devices :
        (requireAuth(server, cookie) /\ ~requireAdmin(server, cookie)) =>
            \A order \in NewestFirst(server.readings, device) :
                /\ Serve(getLatest(server, cookie, device, order)) =>
                    (server'.reply.body \in StoredReadings(server)
                        => server'.reply.body.Device_ID \in MyDeviceIds(server, cookie))
                /\ \A limit \in {"", "1"} :
                    Serve(getHistory(server, cookie, device, limit, order)) =>
                        \A i \in DOMAIN server'.reply.body.history :
                            server'.reply.body.history[i].Device_ID
                                \in MyDeviceIds(server, cookie)

\* C30: an unauthenticated request to the latest-reading or history route gets
\* 401 and no reading, and a non-admin session obtains stored readings only
\* of the devices registered to a client linked to its user.
C30_ReadingAccessControl ==
    [][UnauthenticatedGetsNothing /\ UserGetsOwnReadingsOnly]_vars

====
